---- MODULE Spec2Model ----
(***************************************************************************)
(* Verification model of the authentication / API-client boundary of the   *)
(* admin dashboard: the browser API client (src/lib/api-client.ts), the    *)
(* session context built on it (AuthProvider), the mock server             *)
(* (test-server/mock-server.js) and the Express backend (routes/auth.ts).  *)
(*                                                                         *)
(* Optional values (string | null) are modelled as sequences of length at  *)
(* most one: <<>> is null / absent, <<s>> is the string s.                 *)
(***************************************************************************)
EXTENDS Integers, Sequences, FiniteSets, Bags, TLC

VARIABLES
    \* ---- browser: ApiClient and localStorage
    token,          \* ApiClient.token (in memory)
    localStorage,   \* the 'auth_token' entry of localStorage
    call,           \* per caller: the requestWithRetry invocation it is running
    trace,          \* per caller: the network attempts of its current call
    slept,          \* per caller: the backoff delays of its current call, in order
    \* ---- browser: AuthProvider (session context)
    user, isAdmin, loading,
    auth,           \* per AuthProvider operation: where its async body stands
    \* ---- mock server (test-server/mock-server.js)
    users,          \* Map email -> user, in insertion order
    profiles,       \* Map userId -> profile
    userRoles,      \* Map userId -> list of roles
    now,            \* Date.now()
    \* ---- Express backend (routes/auth.ts over the SQL store)
    tblProfiles, tblPasswords, tblRoles,    \* rows of the three tables
    nextUuid,       \* the next crypto.randomUUID()
    signups,        \* the POST /signup requests the backend is working on
    \* ---- either server, as its clients see it
    backend,        \* which server answers at the API base URL
    reply,          \* the response sent last
    issued,         \* the {email, token} pairs successful sign-ups returned
    \* ---- resources behind the gates
    themeConfig,    \* mock server: the themeConfig object
    tblTheme,       \* Express backend: theme_config, config_key -> config_value
    blobs,          \* Express backend: names of the blobs in the avatars container
    themePuts       \* Express backend: the PUT /theme requests being worked on

clientVars == <<token, localStorage, call, trace, slept, user, isAdmin, loading, auth>>
mockVars == <<users, profiles, userRoles, now>>
expressVars == <<tblProfiles, tblPasswords, tblRoles, nextUuid, signups, backend, reply, issued>>
resourceVars == <<themeConfig, tblTheme, blobs, themePuts>>
vars == <<clientVars, mockVars, expressVars, resourceVars>>

-----------------------------------------------------------------------------
(* Optional values and JavaScript truthiness *)

Null == <<>>
Some(s) == <<s>>
Truthy(v) == v # Null /\ v[1] # ""

-----------------------------------------------------------------------------
(* API_CONFIG *)

maxRetries == 3
retryDelay == 1000

-----------------------------------------------------------------------------
(* ApiClient.shouldRetryError: substring match on the error message *)

networkErrors == <<"Failed to fetch", "NetworkError", "Network request failed", "timeout">>

includes(s, pat) ==
    \E i \in 1..(Len(s) - Len(pat) + 1) : SubSeq(s, i, i + Len(pat) - 1) = pat

shouldRetryError(message) ==
    \E k \in 1..Len(networkErrors) : includes(message, networkErrors[k])

RECURSIVE pow2(_)
pow2(n) == IF n = 0 THEN 1 ELSE 2 * pow2(n - 1)

backoffConstant(attempt) == retryDelay

backoff(attempt) == retryDelay * pow2(attempt)

-----------------------------------------------------------------------------
(* What one network attempt can end in.  kind "response": fetch resolved   *)
(* with a Response of that status; json says whether its body parses, and  *)
(* error is the body's `error` member (Null when the body has none).       *)
(* kind "reject": fetch rejected with an Error carrying that message.      *)
(* kind "abort": the timeout timer fired first and controller.abort() made *)
(* fetch reject with the runtime's AbortError.                             *)

Response(status, error) ==
    [kind |-> "response", status |-> status, json |-> TRUE, error |-> error, payload |-> ""]
Ok(payload) ==
    [kind |-> "response", status |-> 200, json |-> TRUE, error |-> Null, payload |-> payload]
NotJson(status) ==
    [kind |-> "response", status |-> status, json |-> FALSE, error |-> Null, payload |-> ""]
Reject(message) ==
    [kind |-> "reject", status |-> 0, json |-> FALSE, error |-> Some(message), payload |-> ""]
Abort(message) ==
    [kind |-> "abort", status |-> 0, json |-> FALSE, error |-> Some(message), payload |-> ""]
Pending ==
    [kind |-> "pending", status |-> 0, json |-> FALSE, error |-> Null, payload |-> ""]

\* The error bodies the endpoints of this repository send, by status.
EndpointErrors ==
    { Response(400, Some("User already exists")),
      Response(400, Some("Email and password required")),
      Response(400, Some("No file uploaded")),
      Response(400, Some("userId required")),
      Response(400, Null),                          \* { errors: [...] } of express-validator
      Response(401, Some("Invalid credentials")),
      Response(401, Some("Token required")),
      Response(401, Some("Invalid token")),
      Response(401, Some("Access token required")),
      Response(401, Some("Authentication required")),
      Response(403, Some("Invalid or expired token")),
      Response(403, Some("Admin access required")),
      Response(403, Some("Access denied")),
      Response(404, Some("User not found")),
      Response(404, Some("Profile not found")),
      Response(500, Some("Failed to create user")),
      Response(500, Some("Authentication failed")),
      Response(500, Some("Failed to fetch theme configuration")),
      Response(500, Some("Failed to update theme configuration")),
      Response(500, Some("Failed to fetch profile")),
      Response(500, Some("Failed to update profile")),
      Response(500, Some("Failed to fetch roles")),
      Response(500, Some("Failed to upload avatar")),
      Response(500, Some("Failed to delete avatar")),
      Response(500, Some("Authorization check failed")),
      Response(500, Some("Internal server error")) }

\* Error responses of whatever else answers at the configured base URL
\* (a gateway or proxy in front of the backend).
GatewayErrors ==
    { Response(408, Some("Request timeout")),
      Response(429, Some("")),
      NotJson(404),
      NotJson(502) }

\* Messages of the TypeError fetch rejects with when the network fails
\* (Chromium, Firefox, React Native / whatwg-fetch, WebKit).
FetchFailures ==
    { Reject("Failed to fetch"),
      Reject("NetworkError when attempting to fetch resource."),
      Reject("Network request failed"),
      Reject("Load failed") }

\* Messages of the AbortError that controller.abort() makes fetch reject with
\* (Chromium, older Chromium, Firefox, WebKit).
AbortErrors ==
    { Abort("signal is aborted without reason"),
      Abort("The user aborted a request."),
      Abort("The operation was aborted. "),
      Abort("Fetch is aborted") }

Payloads == {"body-1", "body-2"}

Outcomes ==
    {Ok(b) : b \in Payloads} \cup EndpointErrors \cup GatewayErrors
        \cup FetchFailures \cup AbortErrors

-----------------------------------------------------------------------------
(* ApiClient: session store *)

\* localStorage never holds a falsy token: setToken removes the key instead.
getItem == localStorage

setTokenMemoryOnly(t) ==
    /\ token' = t
    /\ UNCHANGED localStorage

setToken(t) ==
    /\ token' = t
    /\ localStorage' = IF Truthy(t) THEN t ELSE Null

getToken == token

\* The Authorization header of an attempt: `this.token && { Authorization: ... }`.
AuthorizationHeader(t) == IF Truthy(t) THEN t ELSE Null

-----------------------------------------------------------------------------
(* ApiClient.requestWithRetry, one invocation per caller *)

Idle == [pc |-> "idle", endpoint |-> "", attempt |-> 0, lastError |-> "", result |-> ""]

\* The loop's first iteration up to `await fetch(...)`.
Fetching(endpoint) ==
    [pc |-> "fetching", endpoint |-> endpoint, attempt |-> 0, lastError |-> "", result |-> ""]

Attempt(t) == [auth |-> AuthorizationHeader(t), outcome |-> Pending]

\* `error.error || 'API request failed'` after
\* `response.json().catch(() => ({ error: 'Request failed' }))`.
ErrorMessage(o) ==
    IF ~o.json THEN "Request failed"
    ELSE IF Truthy(o.error) THEN o.error[1]
    ELSE "API request failed"

\* The message of the Error the try block throws for outcome o.
Thrown(o) == IF o.kind = "response" THEN ErrorMessage(o) ELSE o.error[1]

\* The catch block: give up on the last attempt or on a non-retryable error,
\* otherwise sleep retryDelay * 2^attempt.
CaughtOffByOne(c, message) ==
    IF c.attempt > maxRetries \/ ~shouldRetryError(message)
    THEN [c EXCEPT !.pc = "thrown", !.lastError = message]
    ELSE [c EXCEPT !.pc = "sleeping", !.lastError = message]
Caught(c, message) ==
    IF c.attempt = maxRetries \/ ~shouldRetryError(message)
    THEN [c EXCEPT !.pc = "thrown", !.lastError = message]
    ELSE [c EXCEPT !.pc = "sleeping", !.lastError = message]

\* The invocation after the pending attempt ended in o.
Settled(c, o) ==
    IF o.kind = "response" /\ o.status \in 200..299
    THEN [c EXCEPT !.pc = "returned", !.result = o.payload]
    ELSE Caught(c, Thrown(o))

\* trace and slept of caller p after its pending attempt ended in o.
Record(p, o, c2) ==
    /\ trace' = [trace EXCEPT ![p][Len(trace[p])].outcome = o]
    /\ slept' = IF c2.pc = "sleeping" /\ p = "page"
                 THEN [slept EXCEPT ![p] = Append(@, backoff(call[p].attempt))]
                 ELSE slept

-----------------------------------------------------------------------------
(* Callers of the client.  "page" is any component calling an ApiClient     *)
(* method directly, "profile" the Profile page loading its data, and the    *)
(* other three are the AuthProvider's async functions.                      *)

Procs == {"page", "profile", "checkAuth", "signIn", "signUp"}

Users == {"u1", "u2"}
TokenOf(u) == "jwt-" \o u
UserOf(t) == CHOOSE u \in Users : TokenOf(u) = t

\* The endpoints a page calls through request(): getProfile, getThemeConfig.
PageEndpoints == {"/profiles/me", "/theme"}

Done(c) == c.pc \in {"idle", "returned", "thrown"}

\* request(endpoint): the synchronous start of requestWithRetry.
Request(p, endpoint, t) ==
    /\ call' = [call EXCEPT ![p] = Fetching(endpoint)]
    /\ trace' = [trace EXCEPT ![p] = <<Attempt(t)>>]
    /\ slept' = [slept EXCEPT ![p] = <<>>]

\* The attempts on record: all those of a page's call, and of a call of the
\* AuthProvider the pending one alone.
Tracked(p, tr, a) == IF p = "page" THEN Append(tr, a) ELSE <<a>>

\* The sleep of caller p ends: attempt++, headers rebuilt, fetch issued.
Wake(p) ==
    /\ call[p].pc = "sleeping"
    /\ call' = [call EXCEPT ![p].pc = "fetching", ![p].attempt = @ + 1]
    /\ trace' = [trace EXCEPT ![p] = Tracked(p, @, Attempt(token))]
    /\ UNCHANGED <<token, localStorage, slept, user, isAdmin, loading, auth>>
    /\ UNCHANGED <<mockVars, expressVars, resourceVars>>

PageRequest(endpoint) ==
    /\ Done(call["page"])
    /\ Request("page", endpoint, token)
    /\ UNCHANGED <<token, localStorage, user, isAdmin, loading, auth>>
    /\ UNCHANGED <<mockVars, expressVars, resourceVars>>

\* The pending attempt of the page's call ends in o.
PageSettle(o) ==
    /\ call["page"].pc = "fetching"
    /\ LET c2 == Settled(call["page"], o) IN
        /\ call' = [call EXCEPT !["page"] = c2]
        /\ Record("page", o, c2)
    /\ UNCHANGED <<token, localStorage, user, isAdmin, loading, auth>>
    /\ UNCHANGED <<mockVars, expressVars, resourceVars>>

\* A component (or the console) calls apiClient.setToken directly.
TokenArgs == {Null, Some(""), Some(TokenOf("u1"))}

SetToken(t) ==
    /\ setToken(t)
    /\ UNCHANGED <<call, trace, slept, user, isAdmin, loading, auth>>
    /\ UNCHANGED <<mockVars, expressVars, resourceVars>>

\* The page is reloaded: the module is evaluated again, `new ApiClient()`
\* loads the token from localStorage, and whatever was in flight is gone.
Construct ==
    /\ token' = getItem
    /\ call' = [p \in Procs |-> Idle]
    /\ trace' = [p \in Procs |-> <<>>]
    /\ slept' = [p \in Procs |-> <<>>]
    /\ UNCHANGED <<localStorage, user, isAdmin, loading, auth>>
    /\ UNCHANGED <<mockVars, expressVars, resourceVars>>

-----------------------------------------------------------------------------
(* AuthProvider (session context) *)

\* What the backend can answer to a session call carrying Authorization
\* header h.  A token can expire or its identity can lose or gain a role at
\* any time, so each answer is possible whenever a header is present.
SessionOutcomes(endpoint, h) ==
    CASE endpoint = "/auth/signin" ->
            {Ok(u) : u \in Users} \cup {Response(401, Some("Invalid credentials"))}
      [] endpoint = "/auth/signup" ->
            {Ok(u) : u \in Users} \cup {Response(400, Some("User already exists"))}
      [] endpoint = "/auth/me" ->
            IF h = Null THEN {Response(401, Some("Token required"))}
            ELSE {Ok(UserOf(h[1])), Response(401, Some("Invalid token"))}
      [] endpoint = "/profiles/me/roles" ->
            IF h = Null THEN {Response(401, Some("Access token required"))}
            ELSE {Ok("admin"), Ok("user"), Response(403, Some("Invalid or expired token"))}
      [] OTHER ->
            IF h = Null THEN {Response(401, Some("Access token required"))}
            ELSE {Ok("body-1"), Response(403, Some("Invalid or expired token"))}

PendingHeader(p) == trace[p][Len(trace[p])].auth

\* How many attempts of one session call the network may fail.
MaxNetworkFailures == 1

\* How many calls the browser has in flight at once.
MaxInFlight == 2

Calling == {p \in Procs : ~Done(call[p])}

\* What can come back for the attempt caller p has pending, if it has one.
Answers(p) ==
    IF call[p].pc = "fetching"
    THEN SessionOutcomes(call[p].endpoint, PendingHeader(p))
            \cup (IF call[p].attempt < MaxNetworkFailures
                  THEN {Reject("Failed to fetch")} ELSE {})
    ELSE {}

\* The pending attempt of caller p ends in o and requestWithRetry goes to
\* sleep: the caller stays suspended.
Retrying(p, o, c2) ==
    /\ c2.pc = "sleeping"
    /\ call' = [call EXCEPT ![p] = c2]
    /\ Record(p, o, c2)
    /\ UNCHANGED <<token, localStorage, user, isAdmin, loading, auth>>

\* The pending attempt of p ends, the call is over, and the caller makes no
\* further call: nothing of the invocation remains.
Finished(p) ==
    /\ call' = [call EXCEPT ![p] = Idle]
    /\ trace' = [trace EXCEPT ![p] = <<>>]
    /\ slept' = [slept EXCEPT ![p] = <<>>]

\* The call of p is over and p goes on to getUserRoles() with token t current.
ThenGetUserRoles(p, t) ==
    /\ call' = [call EXCEPT ![p] = Fetching("/profiles/me/roles")]
    /\ trace' = [trace EXCEPT ![p] = <<Attempt(t)>>]
    /\ slept' = [slept EXCEPT ![p] = <<>>]

\* useEffect(() => { checkAuth() }, []) up to its first await.
CheckAuth ==
    /\ auth.checkAuth = "unmounted"
    /\ IF Truthy(getItem)
       THEN /\ Request("checkAuth", "/auth/me", token)
            /\ auth' = [auth EXCEPT !.checkAuth = "getCurrentUser"]
            /\ UNCHANGED loading
       ELSE /\ loading' = FALSE
            /\ auth' = [auth EXCEPT !.checkAuth = "done"]
            /\ UNCHANGED <<call, trace, slept>>
    /\ UNCHANGED <<token, localStorage, user, isAdmin>>
    /\ UNCHANGED <<mockVars, expressVars, resourceVars>>

\* checkAuth resumes after an attempt of its pending call.
CheckAuthSettle(o) ==
    /\ call["checkAuth"].pc = "fetching"
    /\ LET c2 == Settled(call["checkAuth"], o) IN
        \/ Retrying("checkAuth", o, c2)
        \/ /\ c2.pc = "returned" /\ auth.checkAuth = "getCurrentUser"
           /\ user' = Some(c2.result)
           /\ ThenGetUserRoles("checkAuth", token)
           /\ auth' = [auth EXCEPT !.checkAuth = "getUserRoles"]
           /\ UNCHANGED <<token, localStorage, isAdmin, loading>>
        \/ /\ c2.pc = "returned" /\ auth.checkAuth = "getUserRoles"
           /\ isAdmin' = (c2.result = "admin")
           /\ loading' = FALSE
           /\ Finished("checkAuth")
           /\ auth' = [auth EXCEPT !.checkAuth = "done"]
           /\ UNCHANGED <<token, localStorage, user>>
        \/ /\ c2.pc = "thrown"
           /\ setToken(Null)
           /\ loading' = FALSE
           /\ Finished("checkAuth")
           /\ auth' = [auth EXCEPT !.checkAuth = "done"]
           /\ UNCHANGED <<user, isAdmin>>
    /\ UNCHANGED <<mockVars, expressVars, resourceVars>>

InFlight(a) == a \in {"getCurrentUser", "getUserRoles", "signIn", "signUp"}

\* signIn(email, password) up to its first await.
SignInCalled ==
    /\ auth.checkAuth # "unmounted"
    /\ ~InFlight(auth.signIn)
    /\ Cardinality(Calling) < MaxInFlight
    /\ Request("signIn", "/auth/signin", token)
    /\ auth' = [auth EXCEPT !.signIn = "signIn"]
    /\ UNCHANGED <<token, localStorage, user, isAdmin, loading>>

SignIn ==
    /\ SignInCalled
    /\ UNCHANGED <<mockVars, expressVars, resourceVars>>

SignInSettle(o) ==
    /\ call["signIn"].pc = "fetching"
    /\ LET c2 == Settled(call["signIn"], o) IN
        \/ Retrying("signIn", o, c2)
        \/ /\ c2.pc = "returned" /\ auth.signIn = "signIn"
           /\ setToken(Some(TokenOf(c2.result)))
           /\ user' = Some(c2.result)
           /\ ThenGetUserRoles("signIn", Some(TokenOf(c2.result)))
           /\ auth' = [auth EXCEPT !.signIn = "getUserRoles"]
           /\ UNCHANGED <<isAdmin, loading>>
        \/ /\ c2.pc = "returned" /\ auth.signIn = "getUserRoles"
           /\ isAdmin' = (c2.result = "admin")
           /\ Finished("signIn")
           /\ auth' = [auth EXCEPT !.signIn = "idle"]
           /\ UNCHANGED <<token, localStorage, user, loading>>
        \/ /\ c2.pc = "thrown"
           /\ Finished("signIn")
           /\ auth' = [auth EXCEPT !.signIn = "idle"]
           /\ UNCHANGED <<token, localStorage, user, isAdmin, loading>>
    /\ UNCHANGED <<mockVars, expressVars, resourceVars>>

\* signUp(email, password, displayName) up to its first await.
SignUp ==
    /\ auth.checkAuth # "unmounted"
    /\ ~InFlight(auth.signUp)
    /\ Cardinality(Calling) < MaxInFlight
    /\ Request("signUp", "/auth/signup", token)
    /\ auth' = [auth EXCEPT !.signUp = "signUp"]
    /\ UNCHANGED <<token, localStorage, user, isAdmin, loading>>
    /\ UNCHANGED <<mockVars, expressVars, resourceVars>>

SignUpSettle(o) ==
    /\ call["signUp"].pc = "fetching"
    /\ LET c2 == Settled(call["signUp"], o) IN
        \/ Retrying("signUp", o, c2)
        \/ /\ c2.pc = "returned"
           /\ setToken(Some(TokenOf(c2.result)))
           /\ user' = Some(c2.result)
           /\ isAdmin' = FALSE
           /\ Finished("signUp")
           /\ auth' = [auth EXCEPT !.signUp = "idle"]
           /\ UNCHANGED loading
        \/ /\ c2.pc = "thrown"
           /\ Finished("signUp")
           /\ auth' = [auth EXCEPT !.signUp = "idle"]
           /\ UNCHANGED <<token, localStorage, user, isAdmin, loading>>
    /\ UNCHANGED <<mockVars, expressVars, resourceVars>>

\* The Profile page's loadProfile(): apiClient.getProfile().
LoadProfile ==
    /\ auth.checkAuth # "unmounted"
    /\ Done(call["profile"])
    /\ Cardinality(Calling) < MaxInFlight
    /\ Request("profile", "/profiles/me", token)
    /\ UNCHANGED <<token, localStorage, user, isAdmin, loading, auth>>
    /\ UNCHANGED <<mockVars, expressVars, resourceVars>>

LoadProfileSettle(o) ==
    /\ call["profile"].pc = "fetching"
    /\ LET c2 == Settled(call["profile"], o) IN
        \/ Retrying("profile", o, c2)
        \/ /\ c2.pc \in {"returned", "thrown"}
           /\ Finished("profile")
           /\ UNCHANGED <<token, localStorage, user, isAdmin, loading, auth>>
    /\ UNCHANGED <<mockVars, expressVars, resourceVars>>

SignOut ==
    /\ auth.checkAuth # "unmounted"
    /\ setToken(Null)
    /\ user' = Null
    /\ isAdmin' = FALSE
    /\ UNCHANGED <<call, trace, slept, loading, auth>>
    /\ UNCHANGED <<mockVars, expressVars, resourceVars>>

-----------------------------------------------------------------------------
(* Client specifications.  The browser starts with whatever token an       *)
(* earlier visit left in localStorage; the servers play no part.           *)

ClientInit ==
    /\ localStorage \in {Null, Some(TokenOf("u1"))}
    /\ token = localStorage
    /\ call = [p \in Procs |-> Idle]
    /\ trace = [p \in Procs |-> <<>>]
    /\ slept = [p \in Procs |-> <<>>]
    /\ user = Null /\ isAdmin = FALSE /\ loading = TRUE
    /\ auth = [checkAuth |-> "unmounted", signIn |-> "idle", signUp |-> "idle"]
    /\ users = <<>> /\ profiles = <<>> /\ userRoles = <<>> /\ now = 0
    /\ tblProfiles = {} /\ tblPasswords = {} /\ tblRoles = {}
    /\ nextUuid = 1 /\ signups = EmptyBag
    /\ backend = "mock" /\ reply = <<>> /\ issued = {}
    /\ themeConfig = ("primaryColor" :> "#3b82f6") @@ ("secondaryColor" :> "#8b5cf6")
                        @@ ("fontFamily" :> "Inter")
    /\ tblTheme = <<>> /\ blobs = {} /\ themePuts = EmptyBag

\* SpecRetry: one caller driving requestWithRetry against every outcome.
RetryNext ==
    \/ \E e \in PageEndpoints : PageRequest(e)
    \/ \E o \in Outcomes : PageSettle(o)
    \/ Wake("page")

SpecRetry == ClientInit /\ [][RetryNext]_vars

\* SpecStore: the ApiClient used directly: setToken with any argument,
\* requests, page reloads.
StoreNext ==
    \/ \E t \in TokenArgs : SetToken(t)
    \/ Construct
    \/ \E e \in PageEndpoints : PageRequest(e)
    \/ \E o \in Answers("page") : PageSettle(o)
    \/ Wake("page")

SpecStore == ClientInit /\ [][StoreNext]_vars

\* SpecSession: the AuthProvider and a page sharing the client.
SessionNext ==
    \/ CheckAuth
    \/ \E o \in Answers("checkAuth") :
            CheckAuthSettle(o)
    \/ SignIn
    \/ \E o \in Answers("signIn") :
            SignInSettle(o)
    \/ SignUp
    \/ \E o \in Answers("signUp") :
            SignUpSettle(o)
    \/ SignOut
    \/ LoadProfile
    \/ \E o \in Answers("profile") : LoadProfileSettle(o)
    \/ \E p \in Procs : Wake(p)

SpecSession == ClientInit /\ [][SessionNext]_vars

-----------------------------------------------------------------------------
(* The servers: what both share *)

MaxUsers == 2       \* identities a server is asked to create
MaxClock == 1       \* milliseconds the mock server's clock advances

\* jwt.sign(..., { expiresIn: '7d' }): the lifetime of a token in days, and
\* the day the servers' clocks show.
expiresIn == 7
Today == 0

\* A token signed on the given day: the payload (userId, email, exp) and the
\* signature, which binds the payload to the key that signed it.
SignedAt(userId, email, secret, day) ==
    [userId |-> userId, email |-> email, exp |-> day + expiresIn,
     sig |-> <<userId, email, day + expiresIn, secret>>]

SignedToken(userId, email, secret) == SignedAt(userId, email, secret, Today)

\* jwt.verify(token, secret): the signature matches the payload under the
\* key, and the token has not expired.
verifyPayloadOnly(t, secret) == t.userId # ""
verify(t, secret) ==
    /\ t.sig = <<t.userId, t.email, t.exp, secret>>
    /\ t.exp > Today

\* The bodies clients send to POST /signup.
SignupBodies == {
    [email |-> Some("a@x.com"), password |-> Some("password123"), displayName |-> Some("Ann")],
    [email |-> Some("b@x.com"), password |-> Some("password123"), displayName |-> Null],
    [email |-> Some("B@x.com"), password |-> Some("password123"), displayName |-> Null],
    [email |-> Some("a@x.com"), password |-> Some("pw"), displayName |-> Null],
    [email |-> Some(""), password |-> Some("password123"), displayName |-> Null] }

\* A request as the server receives it: the body fields and the bearer token.
SignupRequest(b) ==
    [email |-> b.email, password |-> b.password, displayName |-> b.displayName,
     authorization |-> Null]
MeRequest(h) ==
    [email |-> Null, password |-> Null, displayName |-> Null, authorization |-> h]

\* The response the server sends: res.status(status).json({error, user, token}).
\* known: the email was registered when the request arrived; answered: the
\* store answered the queries of the handler.
Sent(op, request, status, error, u, t, known, answered) ==
    [op |-> op, request |-> request, status |-> status, error |-> error,
     user |-> u, token |-> t, known |-> known, answered |-> answered]

\* email.split('@')[0]
LocalPart(email) ==
    LET ats == {i \in 1..Len(email) : SubSeq(email, i, i) = "@"}
        cut == IF ats = {} THEN Len(email) + 1
               ELSE CHOOSE i \in ats : \A j \in ats : i <= j
    IN  SubSeq(email, 1, cut - 1)

-----------------------------------------------------------------------------
(* The mock server (test-server/mock-server.js) *)

MockSecret == "test-secret-key"

\* A Map in insertion order: entries [key, value]; set() on a key the Map
\* holds replaces the value in place, on a new key appends.
MapHas(m, k) == \E i \in 1..Len(m) : m[i].key = k
MapSet(m, k, v) ==
    IF MapHas(m, k)
    THEN [i \in 1..Len(m) |-> IF m[i].key = k THEN [key |-> k, value |-> v] ELSE m[i]]
    ELSE Append(m, [key |-> k, value |-> v])
MapValues(m) == [i \in 1..Len(m) |-> m[i].value]

\* Array.prototype.find: the first element satisfying the test, or undefined.
FindById(vs, id) ==
    LET hits == {i \in 1..Len(vs) : vs[i].id = id}
    IN  IF hits = {} THEN Null
        ELSE Some(vs[CHOOSE i \in hits : \A j \in hits : i <= j])

generateToken(userId, email) == SignedToken(userId, email, MockSecret)

\* authenticateToken: Null when the request may proceed, else the response.
authenticateToken(h) ==
    IF h = Null THEN Some([status |-> 401, error |-> "Access token required"])
    ELSE IF ~verify(h[1], MockSecret)
         THEN Some([status |-> 403, error |-> "Invalid or expired token"])
         ELSE Null

WithoutPassword(u) ==
    [id |-> u.id, email |-> u.email, displayName |-> u.displayName,
     createdAt |-> u.createdAt]

\* POST /api/auth/signup
MockSignup(b) ==
    /\ backend = "mock"
    /\ LET req == SignupRequest(b)
           known == b.email # Null /\ MapHas(users, b.email[1])
       IN  IF ~Truthy(b.email) \/ ~Truthy(b.password)
           THEN /\ reply' = Sent("signup", req, 400, Some("Email and password required"),
                                 Null, Null, known, TRUE)
                /\ UNCHANGED <<users, profiles, userRoles, issued>>
           ELSE IF MapHas(users, b.email[1])
           THEN /\ reply' = Sent("signup", req, 400, Some("User already exists"),
                                 Null, Null, known, TRUE)
                /\ UNCHANGED <<users, profiles, userRoles, issued>>
           ELSE LET email == b.email[1]
                    userId == "user_" \o ToString(now)
                    u == [id |-> userId, email |-> email,
                          displayName |-> IF Truthy(b.displayName) THEN b.displayName[1]
                                          ELSE LocalPart(email),
                          createdAt |-> now]
                    t == generateToken(userId, email)
                IN  /\ Len(users) < MaxUsers
                    /\ users' = MapSet(users, email,
                                       [id |-> u.id, email |-> u.email,
                                        displayName |-> u.displayName,
                                        createdAt |-> u.createdAt,
                                        password |-> b.password[1]])
                    /\ profiles' = MapSet(profiles, userId,
                                          [id |-> userId, email |-> email,
                                           displayName |-> u.displayName,
                                           avatarUrl |-> Null, bio |-> Null])
                    /\ userRoles' = MapSet(userRoles, userId,
                                           <<[role |-> "user", createdAt |-> now]>>)
                    /\ reply' = Sent("signup", req, 200, Null, Some(u), Some(t),
                                     known, TRUE)
                    /\ issued' = issued \cup {[email |-> email, token |-> t]}
    /\ UNCHANGED <<clientVars, now, backend>>
    /\ UNCHANGED resourceVars
    /\ UNCHANGED <<tblProfiles, tblPasswords, tblRoles, nextUuid, signups>>

\* GET /api/auth/me, behind authenticateToken
MockMe(h) ==
    LET denied == authenticateToken(h)
    IN  IF denied # Null
        THEN Sent("me", MeRequest(h), denied[1].status, Some(denied[1].error),
                  Null, Null, FALSE, TRUE)
        ELSE LET found == FindById(MapValues(users), h[1].userId)
             IN  IF found = Null
                 THEN Sent("me", MeRequest(h), 404, Some("User not found"),
                           Null, Null, FALSE, TRUE)
                 ELSE Sent("me", MeRequest(h), 200, Null,
                           Some(WithoutPassword(found[1])), Null, FALSE, TRUE)

\* The Authorization headers clients present: none, a token a sign-up
\* returned, a token signed with another key.
Headers ==
    {Null, Some(SignedToken("user_0", "a@x.com", "guessed-key"))}
        \cup {Some(r.token) : r \in issued}

MockGetMe(h) ==
    /\ backend = "mock"
    /\ reply' = MockMe(h)
    /\ UNCHANGED <<clientVars, mockVars, backend, issued>>
    /\ UNCHANGED resourceVars
    /\ UNCHANGED <<tblProfiles, tblPasswords, tblRoles, nextUuid, signups>>

\* A millisecond passes.
Tick ==
    /\ backend = "mock"
    /\ now < MaxClock
    /\ now' = now + 1
    /\ UNCHANGED <<clientVars, users, profiles, userRoles, expressVars>>
    /\ UNCHANGED resourceVars

-----------------------------------------------------------------------------
(* The Express backend (routes/auth.ts) over the SQL store *)

ExpressSecret == "your-secret-key-change-this"

\* express-validator isEmail(): something@domain.tld
isEmail(s) ==
    \E i \in 2..(Len(s) - 1) :
        /\ SubSeq(s, i, i) = "@"
        /\ ~includes(SubSeq(s, 1, i - 1), "@")
        /\ ~includes(SubSeq(s, i + 1, Len(s)), "@")
        /\ \E j \in (i + 2)..(Len(s) - 1) : SubSeq(s, j, j) = "."

\* express-validator normalizeEmail(): the address in lower case.
UpperCase == "ABCDEFGHIJKLMNOPQRSTUVWXYZ"
LowerCase == "abcdefghijklmnopqrstuvwxyz"
toLowerCase(c) ==
    IF \E i \in 1..Len(UpperCase) : SubSeq(UpperCase, i, i) = c
    THEN LET i == CHOOSE k \in 1..Len(UpperCase) : SubSeq(UpperCase, k, k) = c
         IN  SubSeq(LowerCase, i, i)
    ELSE c
RECURSIVE normalizeEmail(_)
normalizeEmail(s) ==
    IF s = "" THEN ""
    ELSE toLowerCase(SubSeq(s, 1, 1)) \o normalizeEmail(SubSeq(s, 2, Len(s)))

\* The validation chain of POST /signup: TRUE when validationResult is empty.
SignupValid(b) ==
    /\ b.email # Null /\ isEmail(b.email[1])
    /\ b.password # Null /\ Len(b.password[1]) >= 6
    /\ b.displayName # Null => Len(b.displayName[1]) <= 255

\* bcrypt.hash(password, 10)
hash(password) == "$2b$10$" \o password

\* crypto.randomUUID()
randomUUID == "uuid-" \o ToString(nextUuid)

expressToken(userId, email) == SignedToken(userId, email, ExpressSecret)

\* SELECT id FROM profiles WHERE email = @email
existingUserNone(email) == {}
existingUser(email) == {r.id : r \in {p \in tblProfiles : p.email = email}}

\* The profiles table holds a row with this email.
Registered(email) == \E p \in tblProfiles : p.email = email

\* The requests the backend is working on, by where the handler stands.
\* Requests in the same position with the same content are interchangeable,
\* so the requests in flight form a bag.
Working(pc) == {r \in BagToSet(signups) : r.pc = pc}
InFlightAt(pc) == BagCardinality([r \in Working(pc) |-> signups[r]])
Add(s, r) == s (+) SetToBag({r})
Remove(s, r) == s (-) SetToBag({r})

\* POST /signup arrives: validation, then the handler awaits the store.
ExSignup(b) ==
    /\ backend = "express"
    /\ IF ~SignupValid(b)
       THEN /\ reply' = Sent("signup", SignupRequest(b), 400, Null, Null, Null,
                             FALSE, TRUE)
            /\ UNCHANGED signups
       ELSE LET email == normalizeEmail(b.email[1])
            IN  /\ BagCardinality(signups) < MaxInFlight
                /\ (nextUuid - 1) + InFlightAt("lookup") < MaxUsers
                /\ signups' = Add(signups,
                        [request |-> SignupRequest(b), email |-> email,
                         known |-> Registered(email),
                         pc |-> "lookup", userId |-> "", failed |-> FALSE])
                /\ UNCHANGED reply
    /\ UNCHANGED <<clientVars, mockVars, backend, issued>>
    /\ UNCHANGED resourceVars
    /\ UNCHANGED <<tblProfiles, tblPasswords, tblRoles, nextUuid>>

\* The existence query settles: the handler answers 400, or 500 when the
\* store failed, or goes on to hash the password and send the batch.
ExLookup(r, storeOk) ==
    /\ backend = "express"
    /\ r \in Working("lookup")
    /\ IF ~storeOk
       THEN /\ reply' = Sent("signup", r.request, 500, Some("Failed to create user"),
                             Null, Null, r.known, FALSE)
            /\ signups' = Remove(signups, r)
            /\ UNCHANGED nextUuid
       ELSE IF Cardinality(existingUser(r.email)) > 0
       THEN /\ reply' = Sent("signup", r.request, 400, Some("User already exists"),
                             Null, Null, r.known, TRUE)
            /\ signups' = Remove(signups, r)
            /\ UNCHANGED nextUuid
       ELSE /\ signups' = Add(Remove(signups, r),
                               [r EXCEPT !.pc = "insert-profile",
                                         !.userId = randomUUID])
            /\ nextUuid' = nextUuid + 1
            /\ UNCHANGED reply
    /\ UNCHANGED <<clientVars, mockVars, backend, issued>>
    /\ UNCHANGED resourceVars
    /\ UNCHANGED <<tblProfiles, tblPasswords, tblRoles>>

\* The three INSERTs of the batch, in order, and what each adds.
Statements == <<"insert-profile", "insert-password", "insert-role">>
StatementAfter(pc) ==
    CASE pc = "insert-profile" -> "insert-password"
      [] pc = "insert-password" -> "insert-role"
      [] OTHER -> "done"

\* A statement succeeds, fails alone (the batch goes on with the next
\* statement) or ends the batch; no transaction surrounds the batch, so
\* what earlier statements inserted stays.
StatementOutcomes == {"ok", "error", "abort"}

\* A user_roles row: the pair (user_id, role) and the row's own generated
\* key, told apart here by n, the row's rank among the rows of its pair.
RoleRow(userId, role, n) == [user_id |-> userId, role |-> role, n |-> n]
RolesOf(rows, userId, role) == {r \in rows : r.user_id = userId /\ r.role = role}

\* UNIQUE (user_id, role): the store admits a row only for a pair no row has.
NoConstraint(rows, userId, role) == TRUE
UQ_user_roles_user_role(rows, userId, role) == RolesOf(rows, userId, role) = {}

\* INSERT INTO user_roles (user_id, role): the table after the statement,
\* unchanged when the constraint rejects the row.
InsertRole(rows, userId, role) ==
    IF UQ_user_roles_user_role(rows, userId, role)
    THEN rows \cup {RoleRow(userId, role, Cardinality(RolesOf(rows, userId, role)) + 1)}
    ELSE rows

\* FK_user_roles_profiles: a role row needs the profile row it refers to.
ForeignKeyHolds(userId) == \E p \in tblProfiles : p.id = userId

ExInsert(r, outcome) ==
    /\ backend = "express"
    /\ r \in BagToSet(signups)
    /\ r.pc \in {Statements[k] : k \in 1..Len(Statements)}
    /\ LET b == r.request
           failed == r.failed \/ outcome # "ok"
           next == IF outcome = "abort" THEN "done" ELSE StatementAfter(r.pc)
       IN  /\ (r.pc = "insert-role" /\ outcome = "ok") =>
                    /\ ForeignKeyHolds(r.userId)
                    /\ UQ_user_roles_user_role(tblRoles, r.userId, "user")
           /\ tblProfiles' =
                IF r.pc = "insert-profile" /\ outcome = "ok"
                THEN tblProfiles \cup
                        {[id |-> r.userId, email |-> r.email,
                          display_name |-> b.displayName,
                          avatar_url |-> Null, bio |-> Null]}
                ELSE tblProfiles
           /\ tblPasswords' =
                IF r.pc = "insert-password" /\ outcome = "ok"
                THEN tblPasswords \cup
                        {[user_id |-> r.userId, password_hash |-> hash(b.password[1])]}
                ELSE tblPasswords
           /\ tblRoles' =
                IF r.pc = "insert-role" /\ outcome = "ok"
                THEN InsertRole(tblRoles, r.userId, "user")
                ELSE tblRoles
           /\ IF next # "done"
              THEN /\ signups' = Add(Remove(signups, r),
                                      [r EXCEPT !.pc = next, !.failed = failed])
                   /\ UNCHANGED <<reply, issued>>
              ELSE /\ signups' = Remove(signups, r)
                   /\ IF failed
                      THEN /\ reply' = Sent("signup", r.request, 500, Some("Failed to create user"),
                                            Null, Null, r.known, TRUE)
                           /\ UNCHANGED issued
                      ELSE LET t == expressToken(r.userId, r.email)
                           IN  /\ reply' = Sent("signup", r.request, 201, Null,
                                             Some([id |-> r.userId, email |-> r.email,
                                                   displayName |-> b.displayName]),
                                             Some(t), r.known, TRUE)
                               /\ issued' = issued \cup {[email |-> r.email, token |-> t]}
    /\ UNCHANGED <<clientVars, mockVars, backend, nextUuid>>
    /\ UNCHANGED resourceVars

\* GET /me
ExpressMe(h, storeOk) ==
    IF h = Null
    THEN Sent("me", MeRequest(h), 401, Some("Token required"), Null, Null, FALSE, TRUE)
    ELSE IF ~verify(h[1], ExpressSecret) \/ ~storeOk
    THEN Sent("me", MeRequest(h), 401, Some("Invalid token"), Null, Null, FALSE, storeOk)
    ELSE LET recordset == {p \in tblProfiles : p.id = h[1].userId}
         IN  IF Cardinality(recordset) = 0
             THEN Sent("me", MeRequest(h), 404, Some("User not found"),
                       Null, Null, FALSE, TRUE)
             ELSE Sent("me", MeRequest(h), 200, Null,
                       Some(CHOOSE p \in recordset : TRUE), Null, FALSE, TRUE)

ExGetMe(h, storeOk) ==
    /\ backend = "express"
    /\ reply' = ExpressMe(h, storeOk)
    /\ UNCHANGED <<clientVars, mockVars, backend, issued>>
    /\ UNCHANGED resourceVars
    /\ UNCHANGED <<tblProfiles, tblPasswords, tblRoles, nextUuid, signups>>

-----------------------------------------------------------------------------
(* SpecServer: either server taking sign-ups and identity lookups *)

ServerInit ==
    /\ localStorage = Null /\ token = Null
    /\ call = [p \in Procs |-> Idle]
    /\ trace = [p \in Procs |-> <<>>]
    /\ slept = [p \in Procs |-> <<>>]
    /\ user = Null /\ isAdmin = FALSE /\ loading = TRUE
    /\ auth = [checkAuth |-> "unmounted", signIn |-> "idle", signUp |-> "idle"]
    /\ users = <<>> /\ profiles = <<>> /\ userRoles = <<>> /\ now = 0
    /\ tblProfiles = {} /\ tblPasswords = {} /\ tblRoles = {}
    /\ nextUuid = 1 /\ signups = EmptyBag
    /\ backend \in {"mock", "express"} /\ reply = <<>> /\ issued = {}
    /\ themeConfig = ("primaryColor" :> "#3b82f6") @@ ("secondaryColor" :> "#8b5cf6")
                        @@ ("fontFamily" :> "Inter")
    /\ tblTheme = <<>> /\ blobs = {} /\ themePuts = EmptyBag

ServerNext ==
    \/ \E b \in SignupBodies : MockSignup(b)
    \/ \E h \in Headers : MockGetMe(h)
    \/ Tick
    \/ \E b \in SignupBodies : ExSignup(b)
    \/ \E r \in BagToSet(signups), storeOk \in BOOLEAN : ExLookup(r, storeOk)
    \/ \E r \in BagToSet(signups), o \in StatementOutcomes : ExInsert(r, o)
    \/ \E h \in Headers, storeOk \in BOOLEAN : ExGetMe(h, storeOk)

SpecServer == ServerInit /\ [][ServerNext]_vars

-----------------------------------------------------------------------------
(* Sign-in on either server *)

\* The bodies clients send to POST /signin.
SigninBodies == {
    [email |-> Some("a@x.com"), password |-> Some("password123")],
    [email |-> Some("a@x.com"), password |-> Some("wrong-password")],
    [email |-> Some("b@x.com"), password |-> Some("password123")],
    [email |-> Some("B@x.com"), password |-> Some("wrong-password")],
    [email |-> Some(""), password |-> Some("password123")] }

SigninRequest(b) ==
    [email |-> b.email, password |-> b.password, displayName |-> Null,
     authorization |-> Null]

\* users.get(email)
MapGet(m, k) ==
    IF MapHas(m, k) THEN Some(m[CHOOSE i \in 1..Len(m) : m[i].key = k].value)
    ELSE Null

\* POST /api/auth/signin of the mock server, as a function of the users Map.
MockSignin(us, b) ==
    IF ~Truthy(b.email) \/ ~Truthy(b.password)
    THEN Sent("signin", SigninRequest(b), 400, Some("Email and password required"),
              Null, Null, FALSE, TRUE)
    ELSE LET u == MapGet(us, b.email[1])
         IN  IF u = Null \/ u[1].password # b.password[1]
             THEN Sent("signin", SigninRequest(b), 401, Some("Invalid credentials"),
                       Null, Null, u # Null, TRUE)
             ELSE Sent("signin", SigninRequest(b), 200, Null,
                       Some(WithoutPassword(u[1])),
                       Some(generateToken(u[1].id, b.email[1])), TRUE, TRUE)

\* The validation chain of POST /signin.
SigninValid(b) ==
    /\ b.email # Null /\ isEmail(b.email[1])
    /\ b.password # Null /\ b.password[1] # ""

\* bcrypt.compare(password, hash)
compare(password, h) == h = hash(password)

\* SELECT ... FROM profiles p INNER JOIN user_passwords up ON p.id = up.user_id
\* WHERE p.email = @email
Credentials(profs, pws, email) ==
    {[id |-> p.id, email |-> p.email, display_name |-> p.display_name,
      password_hash |-> c.password_hash] :
        <<p, c>> \in {x \in profs \X pws : x[1].id = x[2].user_id /\ x[1].email = email}}

\* The two 401 responses of POST /signin: no row for the email, and a row
\* whose hash the password does not match.
NoSuchUserRevealed(b) ==
    Sent("signin", SigninRequest(b), 404, Some("User not found"),
         Null, Null, FALSE, TRUE)
NoSuchUser(b) ==
    Sent("signin", SigninRequest(b), 401, Some("Invalid credentials"),
         Null, Null, FALSE, TRUE)
WrongPassword(b) ==
    Sent("signin", SigninRequest(b), 401, Some("Invalid credentials"),
         Null, Null, TRUE, TRUE)

\* POST /signin of the Express backend, as a function of the two tables: the
\* responses it can send (recordset[0] is whichever matching row the store
\* lists first).
ExpressSignin(profs, pws, b, storeOk) ==
    IF ~SigninValid(b)
    THEN {Sent("signin", SigninRequest(b), 400, Null, Null, Null, FALSE, TRUE)}
    ELSE IF ~storeOk
    THEN {Sent("signin", SigninRequest(b), 500, Some("Authentication failed"),
               Null, Null, FALSE, FALSE)}
    ELSE LET recordset == Credentials(profs, pws, normalizeEmail(b.email[1]))
         IN  IF Cardinality(recordset) = 0
             THEN {NoSuchUser(b)}
             ELSE {IF ~compare(b.password[1], u.password_hash)
                   THEN WrongPassword(b)
                   ELSE Sent("signin", SigninRequest(b), 200, Null,
                             Some([id |-> u.id, email |-> u.email,
                                   displayName |-> u.display_name]),
                             Some(expressToken(u.id, u.email)), TRUE, TRUE) :
                        u \in recordset}

MockSigninRequest(b) ==
    /\ backend = "mock"
    /\ reply' = MockSignin(users, b)
    /\ UNCHANGED <<clientVars, mockVars, backend, issued>>
    /\ UNCHANGED <<tblProfiles, tblPasswords, tblRoles, nextUuid, signups>>
    /\ UNCHANGED resourceVars

ExSigninRequest(b, storeOk) ==
    /\ backend = "express"
    /\ reply' \in ExpressSignin(tblProfiles, tblPasswords, b, storeOk)
    /\ UNCHANGED <<clientVars, mockVars, backend, issued>>
    /\ UNCHANGED <<tblProfiles, tblPasswords, tblRoles, nextUuid, signups>>
    /\ UNCHANGED resourceVars

\* SpecSignin: either server taking sign-ups and sign-ins.
\* The sign-ups that precede: those of a@x.com, with either password.
SigninSignups == {b \in SignupBodies : b.email = Some("a@x.com")}

SigninNext ==
    \/ \E b \in SigninSignups : MockSignup(b)
    \/ Tick
    \/ \E b \in SigninBodies : MockSigninRequest(b)
    \/ \E b \in SigninSignups : ExSignup(b)
    \/ \E r \in BagToSet(signups), storeOk \in BOOLEAN : ExLookup(r, storeOk)
    \/ \E r \in BagToSet(signups), o \in StatementOutcomes : ExInsert(r, o)
    \/ \E b \in SigninBodies, storeOk \in BOOLEAN : ExSigninRequest(b, storeOk)

SpecSignin == ServerInit /\ [][SigninNext]_vars

-----------------------------------------------------------------------------
(* Protected resources: the registered identities, their tokens, the gates *)

\* Two identities have signed up, a@x.com first and b@x.com a millisecond
\* later; these are the ids and tokens the servers gave them.
Callers == {1, 2}
IdOf(n) == IF backend = "mock" THEN "user_" \o ToString(n - 1)
           ELSE "uuid-" \o ToString(n)
EmailOf(n) == IF n = 1 THEN "a@x.com" ELSE "b@x.com"
BodyOf(n) ==
    [email |-> Some(EmailOf(n)), password |-> Some("password123"),
     displayName |-> IF n = 1 THEN Some("Ann") ELSE Null]
NameOf(n) == IF n = 1 THEN "Ann" ELSE LocalPart(EmailOf(n))
Secret == IF backend = "mock" THEN MockSecret ELSE ExpressSecret
TokenFor(n) == SignedToken(IdOf(n), EmailOf(n), Secret)

\* What the mock server holds about the n-th identity.
MockUser(n) ==
    [id |-> IdOf(n), email |-> EmailOf(n), displayName |-> NameOf(n),
     createdAt |-> n - 1, password |-> "password123"]
MockProfile(n) ==
    [id |-> IdOf(n), email |-> EmailOf(n), displayName |-> NameOf(n),
     avatarUrl |-> Null, bio |-> Null]

\* The profiles row of the n-th identity in the Express backend's store.
ProfileRow(n) ==
    [id |-> IdOf(n), email |-> EmailOf(n), display_name |-> BodyOf(n).displayName,
     avatar_url |-> Null, bio |-> Null]

\* The response to the second sign-up, the last one sent so far.
LastSignupReply ==
    IF backend = "mock"
    THEN Sent("signup", SignupRequest(BodyOf(2)), 200, Null,
              Some(WithoutPassword(MockUser(2))), Some(TokenFor(2)), FALSE, TRUE)
    ELSE Sent("signup", SignupRequest(BodyOf(2)), 201, Null,
              Some([id |-> IdOf(2), email |-> EmailOf(2),
                    displayName |-> BodyOf(2).displayName]),
              Some(TokenFor(2)), FALSE, TRUE)

\* The tokens the gates must turn away: not a JWT at all, expired, payload
\* rewritten to another identity, one byte of the signature flipped.
Malformed == [userId |-> "", email |-> "", exp |-> 0, sig |-> <<>>]
Expired == SignedAt(IdOf(1), EmailOf(1), Secret, Today - expiresIn)
TamperedPayload == [TokenFor(2) EXCEPT !.userId = IdOf(1)]
TamperedSignature == [TokenFor(1) EXCEPT !.sig[4] = "flipped"]
BadTokens == {Malformed, Expired, TamperedPayload, TamperedSignature}

BadHeaders == {Null} \cup {Some(t) : t \in BadTokens}
GoodHeaders == {Some(TokenFor(n)) : n \in Callers}

\* A request to a resource endpoint: the bearer token and what the JSON body
\* or the path carries (Null for what the request leaves out).
NoBody ==
    [displayName |-> Null, bio |-> Null, avatarUrl |-> Null, config |-> Null,
     filename |-> Null, userId |-> Null]
Req(h, body) == [authorization |-> h, body |-> body]

\* The responses to it.
Refused(op, h, body, status, error) ==
    Sent(op, Req(h, body), status, Some(error), Null, Null, FALSE, TRUE)
Unavailable(op, h, body, error) ==
    Sent(op, Req(h, body), 500, Some(error), Null, Null, FALSE, FALSE)
Served(op, h, body, payload) ==
    Sent(op, Req(h, body), 200, Null, Some(payload), Null, FALSE, TRUE)

\* authenticateToken of the Express backend (middleware/auth.ts): Null when
\* the request may proceed, else the response.
ExAuthenticateToken(h) ==
    IF h = Null THEN Some([status |-> 401, error |-> "Access token required"])
    ELSE IF ~verify(h[1], ExpressSecret)
         THEN Some([status |-> 403, error |-> "Invalid or expired token"])
         ELSE Null

\* The gate of the server in use.
Gate(h) == IF backend = "mock" THEN authenticateToken(h) ELSE ExAuthenticateToken(h)

\* The state in which the resource endpoints are exercised: either server,
\* after the two sign-ups.
ResourceInit ==
    /\ localStorage = Null /\ token = Null
    /\ call = [p \in Procs |-> Idle]
    /\ trace = [p \in Procs |-> <<>>]
    /\ slept = [p \in Procs |-> <<>>]
    /\ user = Null /\ isAdmin = FALSE /\ loading = TRUE
    /\ auth = [checkAuth |-> "unmounted", signIn |-> "idle", signUp |-> "idle"]
    /\ backend \in {"mock", "express"}
    /\ users = IF backend = "mock"
               THEN <<[key |-> EmailOf(1), value |-> MockUser(1)],
                      [key |-> EmailOf(2), value |-> MockUser(2)]>>
               ELSE <<>>
    /\ profiles = IF backend = "mock"
                  THEN <<[key |-> IdOf(1), value |-> MockProfile(1)],
                         [key |-> IdOf(2), value |-> MockProfile(2)]>>
                  ELSE <<>>
    /\ userRoles = IF backend = "mock"
                   THEN <<[key |-> IdOf(1), value |-> <<[role |-> "user", createdAt |-> 0]>>],
                          [key |-> IdOf(2), value |-> <<[role |-> "user", createdAt |-> 1]>>]>>
                   ELSE <<>>
    /\ now = IF backend = "mock" THEN 1 ELSE 0
    /\ tblProfiles = IF backend = "mock" THEN {} ELSE {ProfileRow(n) : n \in Callers}
    /\ tblPasswords = IF backend = "mock" THEN {}
                      ELSE {[user_id |-> IdOf(n), password_hash |-> hash("password123")] :
                                n \in Callers}
    /\ tblRoles = IF backend = "mock" THEN {}
                  ELSE {RoleRow(IdOf(n), "user", 1) : n \in Callers}
    /\ nextUuid = IF backend = "mock" THEN 1 ELSE 3
    /\ signups = EmptyBag
    /\ reply = LastSignupReply
    /\ issued = {[email |-> EmailOf(n), token |-> TokenFor(n)] : n \in Callers}
    /\ themeConfig = ("primaryColor" :> "#3b82f6") @@ ("secondaryColor" :> "#8b5cf6")
                        @@ ("fontFamily" :> "Inter")
    /\ tblTheme = <<>> /\ blobs = {} /\ themePuts = EmptyBag

\* ResourceInit describes a state the sign-ups of SpecServer lead to.
AfterTwoSignups ==
    /\ users = IF backend = "mock"
               THEN <<[key |-> EmailOf(1), value |-> MockUser(1)],
                      [key |-> EmailOf(2), value |-> MockUser(2)]>>
               ELSE <<>>
    /\ profiles = IF backend = "mock"
                  THEN <<[key |-> IdOf(1), value |-> MockProfile(1)],
                         [key |-> IdOf(2), value |-> MockProfile(2)]>>
                  ELSE <<>>
    /\ userRoles = IF backend = "mock"
                   THEN <<[key |-> IdOf(1), value |-> <<[role |-> "user", createdAt |-> 0]>>],
                          [key |-> IdOf(2), value |-> <<[role |-> "user", createdAt |-> 1]>>]>>
                   ELSE <<>>
    /\ now = IF backend = "mock" THEN 1 ELSE 0
    /\ tblProfiles = IF backend = "mock" THEN {} ELSE {ProfileRow(n) : n \in Callers}
    /\ tblPasswords = IF backend = "mock" THEN {}
                      ELSE {[user_id |-> IdOf(n), password_hash |-> hash("password123")] :
                                n \in Callers}
    /\ tblRoles = IF backend = "mock" THEN {}
                  ELSE {RoleRow(IdOf(n), "user", 1) : n \in Callers}
    /\ nextUuid = IF backend = "mock" THEN 1 ELSE 3
    /\ signups = EmptyBag
    /\ reply = LastSignupReply
    /\ issued = {[email |-> EmailOf(n), token |-> TokenFor(n)] : n \in Callers}

-----------------------------------------------------------------------------
(* Protected resources on the mock server *)

\* What no resource endpoint touches.
authState == <<clientVars, backend, issued, signups, now, users, tblPasswords>>

\* { ...base, ...config }: the keys of config overwrite or extend base.
Spread(base, config) ==
    [k \in DOMAIN base \cup DOMAIN config |->
        IF k \in DOMAIN config THEN config[k] ELSE base[k]]

\* Object.entries(config) as a mapping: later entries of a key win.
FromEntries(entries) ==
    [k \in {entries[i][1] : i \in 1..Len(entries)} |->
        entries[CHOOSE i \in 1..Len(entries) :
                    /\ entries[i][1] = k
                    /\ \A j \in (i + 1)..Len(entries) : entries[j][1] # k][2]]

\* GET /api/profiles/me
MockGetProfile(h) ==
    /\ backend = "mock"
    /\ reply' =
        IF Gate(h) # Null
        THEN Refused("getProfile", h, NoBody, Gate(h)[1].status, Gate(h)[1].error)
        ELSE LET profile == MapGet(profiles, h[1].userId)
             IN  IF profile = Null
                 THEN Refused("getProfile", h, NoBody, 404, "Profile not found")
                 ELSE Served("getProfile", h, NoBody, profile[1])
    /\ UNCHANGED <<authState, profiles, userRoles, tblProfiles, tblRoles, nextUuid>>
    /\ UNCHANGED resourceVars

\* PUT /api/profiles/me: a body field is Null when the body omits it.
MockPutProfile(h, body) ==
    /\ backend = "mock"
    /\ IF Gate(h) # Null
       THEN /\ reply' = Refused("putProfile", h, body, Gate(h)[1].status, Gate(h)[1].error)
            /\ UNCHANGED profiles
       ELSE LET profile == MapGet(profiles, h[1].userId)
            IN  IF profile = Null
                THEN /\ reply' = Refused("putProfile", h, body, 404, "Profile not found")
                     /\ UNCHANGED profiles
                ELSE LET updatedProfile ==
                            [profile[1] EXCEPT
                                !.displayName = IF Truthy(body.displayName)
                                                THEN body.displayName[1] ELSE @,
                                !.bio = IF body.bio # Null THEN body.bio ELSE @,
                                !.avatarUrl = IF body.avatarUrl # Null
                                              THEN body.avatarUrl ELSE @]
                     IN  /\ profiles' = MapSet(profiles, h[1].userId, updatedProfile)
                         /\ reply' = Served("putProfile", h, body, updatedProfile)
    /\ UNCHANGED <<authState, userRoles, tblProfiles, tblRoles, nextUuid>>
    /\ UNCHANGED resourceVars

\* GET /api/profiles/me/roles
MockGetRoles(h) ==
    /\ backend = "mock"
    /\ reply' =
        IF Gate(h) # Null
        THEN Refused("getRoles", h, NoBody, Gate(h)[1].status, Gate(h)[1].error)
        ELSE LET roles == MapGet(userRoles, h[1].userId)
             IN  Served("getRoles", h, NoBody,
                           [roles |-> IF roles = Null THEN <<>> ELSE roles[1]])
    /\ UNCHANGED <<authState, profiles, userRoles, tblProfiles, tblRoles, nextUuid>>
    /\ UNCHANGED resourceVars

\* GET /api/theme
MockGetTheme ==
    /\ backend = "mock"
    /\ reply' = Served("getTheme", Null, NoBody, [config |-> themeConfig])
    /\ UNCHANGED <<authState, profiles, userRoles, tblProfiles, tblRoles, nextUuid>>
    /\ UNCHANGED resourceVars

\* PUT /api/theme: body.config is the entries of the submitted object, Null
\* when the body has no config.
MockPutTheme(h, body) ==
    /\ backend = "mock"
    /\ IF Gate(h) # Null
       THEN /\ reply' = Refused("putTheme", h, body, Gate(h)[1].status, Gate(h)[1].error)
            /\ UNCHANGED themeConfig
       ELSE /\ themeConfig' = IF body.config = Null THEN themeConfig
                              ELSE Spread(themeConfig, FromEntries(body.config[1]))
            /\ reply' = Served("putTheme", h, body, [message |-> "Theme updated successfully"])
    /\ UNCHANGED <<authState, profiles, userRoles, tblProfiles, tblRoles, nextUuid>>
    /\ UNCHANGED <<tblTheme, blobs, themePuts>>

\* POST /api/upload/avatar
MockUploadAvatar(h) ==
    /\ backend = "mock"
    /\ reply' =
        IF Gate(h) # Null
        THEN Refused("uploadAvatar", h, NoBody, Gate(h)[1].status, Gate(h)[1].error)
        ELSE Served("uploadAvatar", h, NoBody,
                    [url |-> "https://api.dicebear.com/7.x/avataaars/svg?seed="
                                \o h[1].userId,
                     filename |-> "avatar.jpg"])
    /\ UNCHANGED <<authState, profiles, userRoles, tblProfiles, tblRoles, nextUuid>>
    /\ UNCHANGED resourceVars

\* DELETE /api/upload/avatar/:filename
MockDeleteAvatar(h, filename) ==
    /\ backend = "mock"
    /\ reply' =
        IF Gate(h) # Null
        THEN Refused("deleteAvatar", h, [NoBody EXCEPT !.filename = Some(filename)],
                     Gate(h)[1].status, Gate(h)[1].error)
        ELSE Served("deleteAvatar", h, [NoBody EXCEPT !.filename = Some(filename)],
                    [message |-> "Avatar deleted successfully"])
    /\ UNCHANGED <<authState, profiles, userRoles, tblProfiles, tblRoles, nextUuid>>
    /\ UNCHANGED resourceVars

\* POST /api/admin/make-admin
MockMakeAdmin(h, userId) ==
    /\ backend = "mock"
    /\ IF Gate(h) # Null
       THEN /\ reply' = Refused("makeAdmin", h, [NoBody EXCEPT !.userId = userId],
                                 Gate(h)[1].status, Gate(h)[1].error)
            /\ UNCHANGED userRoles
       ELSE IF ~Truthy(userId)
       THEN /\ reply' = Refused("makeAdmin", h, [NoBody EXCEPT !.userId = userId],
                                 400, "userId required")
            /\ UNCHANGED userRoles
       ELSE LET held == MapGet(userRoles, userId[1])
                roles == IF held = Null THEN <<>> ELSE held[1]
            IN  /\ userRoles' =
                    IF \E i \in 1..Len(roles) : roles[i].role = "admin"
                    THEN userRoles
                    ELSE MapSet(userRoles, userId[1],
                                Append(roles, [role |-> "admin", createdAt |-> now]))
                /\ reply' = Served("makeAdmin", h, [NoBody EXCEPT !.userId = userId],
                                 [message |-> "Admin role granted"])
    /\ UNCHANGED <<authState, profiles, tblProfiles, tblRoles, nextUuid>>
    /\ UNCHANGED resourceVars

-----------------------------------------------------------------------------
(* Protected resources on the Express backend *)

MaxBlobs == 2       \* avatars uploaded
MaxThemePuts == 2   \* PUT /theme requests in flight

\* String.prototype.startsWith
startsWith(s, prefix) ==
    Len(s) >= Len(prefix) /\ SubSeq(s, 1, Len(prefix)) = prefix

\* express-validator trim(): the value without leading and trailing spaces.
RECURSIVE trim(_)
trim(s) ==
    IF s = "" THEN ""
    ELSE IF SubSeq(s, 1, 1) = " " THEN trim(SubSeq(s, 2, Len(s)))
    ELSE IF SubSeq(s, Len(s), Len(s)) = " " THEN trim(SubSeq(s, 1, Len(s) - 1))
    ELSE s

\* express-validator isURL(): host.tld with an optional protocol, no spaces.
isURL(s) == includes(s, ".") /\ ~includes(s, " ") /\ ~startsWith(s, ".")

\* path.extname(originalname)
ExtName(name) ==
    LET dots == {i \in 2..Len(name) : SubSeq(name, i, i) = "."}
    IN  IF dots = {} THEN ""
        ELSE SubSeq(name, CHOOSE i \in dots : \A j \in dots : j <= i, Len(name))

\* value || null
OrNull(v) == IF Truthy(v) THEN v ELSE Null

\* ISNULL(@value, column)
ISNULLFirst(value, column) == value
ISNULL(value, column) == IF value # Null THEN value ELSE column

\* dbo.has_role(@userId, @role)
has_roleAny(userId, role) == \E r \in tblRoles : r.user_id = userId
has_role(userId, role) ==
    \E r \in tblRoles : r.user_id = userId /\ r.role = role

\* The validation chain of PUT /profiles/me.
ProfileValid(body) ==
    /\ body.displayName # Null => Len(trim(body.displayName[1])) <= 255
    /\ body.bio # Null => Len(trim(body.bio[1])) <= 5000
    /\ body.avatarUrl # Null => isURL(body.avatarUrl[1])

\* The body after the sanitizers of the chain.
Sanitized(body) ==
    [body EXCEPT !.displayName = IF @ = Null THEN Null ELSE Some(trim(@[1])),
                 !.bio = IF @ = Null THEN Null ELSE Some(trim(@[1]))]

\* GET /profiles/me
ExGetProfile(h, storeOk) ==
    /\ backend = "express"
    /\ reply' =
        IF Gate(h) # Null
        THEN Refused("getProfile", h, NoBody, Gate(h)[1].status, Gate(h)[1].error)
        ELSE IF ~storeOk
        THEN Unavailable("getProfile", h, NoBody, "Failed to fetch profile")
        ELSE LET recordset == {p \in tblProfiles : p.id = h[1].userId}
             IN  IF Cardinality(recordset) = 0
                 THEN Refused("getProfile", h, NoBody, 404, "Profile not found")
                 ELSE Served("getProfile", h, NoBody, CHOOSE p \in recordset : TRUE)
    /\ UNCHANGED <<authState, profiles, userRoles, tblProfiles, tblRoles, nextUuid>>
    /\ UNCHANGED resourceVars

\* PUT /profiles/me: UPDATE ... ; SELECT ... in one batch.
ExPutProfile(h, body, storeOk) ==
    /\ backend = "express"
    /\ IF Gate(h) # Null
       THEN /\ reply' = Refused("putProfile", h, body, Gate(h)[1].status, Gate(h)[1].error)
            /\ UNCHANGED tblProfiles
       ELSE IF ~ProfileValid(body)
       THEN /\ reply' = Sent("putProfile", Req(h, body), 400, Null, Null, Null, FALSE, TRUE)
            /\ UNCHANGED tblProfiles
       ELSE IF ~storeOk
       THEN /\ reply' = Unavailable("putProfile", h, body, "Failed to update profile")
            /\ UNCHANGED tblProfiles
       ELSE LET b == Sanitized(body)
                updated(p) ==
                    [p EXCEPT !.display_name = ISNULL(OrNull(b.displayName), @),
                              !.bio = ISNULL(OrNull(b.bio), @),
                              !.avatar_url = ISNULL(OrNull(b.avatarUrl), @)]
            IN  /\ tblProfiles' = {IF p.id = h[1].userId THEN updated(p) ELSE p :
                                        p \in tblProfiles}
                /\ reply' =
                    LET recordset == {p \in tblProfiles' : p.id = h[1].userId}
                    IN  IF recordset = {}
                        THEN Sent("putProfile", Req(h, body), 200, Null, Null, Null,
                                  FALSE, TRUE)
                        ELSE Served("putProfile", h, body, CHOOSE p \in recordset : TRUE)
    /\ UNCHANGED <<authState, profiles, userRoles, tblRoles, nextUuid>>
    /\ UNCHANGED resourceVars

\* GET /profiles/me/roles
ExGetRoles(h, storeOk) ==
    /\ backend = "express"
    /\ reply' =
        IF Gate(h) # Null
        THEN Refused("getRoles", h, NoBody, Gate(h)[1].status, Gate(h)[1].error)
        ELSE IF ~storeOk
        THEN Unavailable("getRoles", h, NoBody, "Failed to fetch roles")
        ELSE Served("getRoles", h, NoBody,
                    [roles |-> {r.role : r \in {x \in tblRoles : x.user_id = h[1].userId}}])
    /\ UNCHANGED <<authState, profiles, userRoles, tblProfiles, tblRoles, nextUuid>>
    /\ UNCHANGED resourceVars

\* GET /theme
ExGetTheme(storeOk) ==
    /\ backend = "express"
    /\ reply' = IF ~storeOk
                THEN Unavailable("getTheme", Null, NoBody,
                                 "Failed to fetch theme configuration")
                ELSE Served("getTheme", Null, NoBody, [config |-> tblTheme])
    /\ UNCHANGED <<authState, profiles, userRoles, tblProfiles, tblRoles, nextUuid>>
    /\ UNCHANGED resourceVars

\* PUT /theme passes authenticateToken and waits for requireAdmin's query.
ExPutTheme(h, body) ==
    /\ backend = "express"
    /\ IF Gate(h) # Null
       THEN /\ reply' = Refused("putTheme", h, body, Gate(h)[1].status, Gate(h)[1].error)
            /\ UNCHANGED themePuts
       ELSE /\ BagCardinality(themePuts) < MaxThemePuts
            /\ themePuts' = Add(themePuts,
                    [h |-> h, body |-> body, userId |-> h[1].userId,
                     pc |-> "requireAdmin", todo |-> <<>>])
            /\ UNCHANGED reply
    /\ UNCHANGED <<authState, profiles, userRoles, tblProfiles, tblRoles, nextUuid>>
    /\ UNCHANGED <<themeConfig, tblTheme, blobs>>

\* requireAdmin: what the gate decides for an identity.
requireAdminCached(userId, storeOk) ==
    IF \E r \in BagToSet(themePuts) : r.userId = userId /\ r.pc = "merge"
    THEN Null
    ELSE IF ~storeOk THEN Some([status |-> 500, error |-> "Authorization check failed"])
    ELSE IF ~has_role(userId, "admin")
    THEN Some([status |-> 403, error |-> "Admin access required"])
    ELSE Null
requireAdmin(userId, storeOk) ==
    IF userId = "" THEN Some([status |-> 401, error |-> "Authentication required"])
    ELSE IF ~storeOk THEN Some([status |-> 500, error |-> "Authorization check failed"])
    ELSE IF ~has_role(userId, "admin")
    THEN Some([status |-> 403, error |-> "Admin access required"])
    ELSE Null

\* requireAdmin's query settles; the handler validates the body and sets the
\* session context.
ExRequireAdmin(r, storeOk) ==
    /\ backend = "express"
    /\ r \in BagToSet(themePuts) /\ r.pc = "requireAdmin"
    /\ LET denied == requireAdmin(r.userId, storeOk)
       IN  IF denied # Null
           THEN /\ reply' = Sent("putTheme", Req(r.h, r.body), denied[1].status,
                                 Some(denied[1].error), Null, Null, FALSE, storeOk)
                /\ themePuts' = Remove(themePuts, r)
           ELSE IF r.body.config = Null
           THEN /\ reply' = Sent("putTheme", Req(r.h, r.body), 400, Null, Null, Null,
                                 FALSE, TRUE)
                /\ themePuts' = Remove(themePuts, r)
           ELSE IF r.body.config[1] = <<>>
           THEN /\ reply' = Served("putTheme", r.h, r.body,
                                   [message |-> "Theme configuration updated successfully"])
                /\ themePuts' = Remove(themePuts, r)
           ELSE /\ themePuts' = Add(Remove(themePuts, r),
                                    [r EXCEPT !.pc = "merge", !.todo = r.body.config[1]])
                /\ UNCHANGED reply
    /\ UNCHANGED <<authState, profiles, userRoles, tblProfiles, tblRoles, nextUuid>>
    /\ UNCHANGED <<themeConfig, tblTheme, blobs>>

\* One MERGE of the loop over Object.entries(config) settles.
ExMerge(r, storeOk) ==
    /\ backend = "express"
    /\ r \in BagToSet(themePuts) /\ r.pc = "merge"
    /\ IF ~storeOk
       THEN /\ reply' = Unavailable("putTheme", r.h, r.body,
                                    "Failed to update theme configuration")
            /\ themePuts' = Remove(themePuts, r)
            /\ UNCHANGED tblTheme
       ELSE LET key == r.todo[1][1]
                value == r.todo[1][2]
                others == Remove(themePuts, r)
            IN  /\ tblTheme' = Spread(tblTheme, key :> value)
                /\ IF Len(r.todo) > 1
                   THEN /\ themePuts' = Add(others, [r EXCEPT !.todo = Tail(r.todo)])
                        /\ UNCHANGED reply
                   ELSE /\ themePuts' = others
                        /\ reply' = Served("putTheme", r.h, r.body,
                                [message |-> "Theme configuration updated successfully"])
    /\ UNCHANGED <<authState, profiles, userRoles, tblProfiles, tblRoles, nextUuid>>
    /\ UNCHANGED <<themeConfig, blobs>>

\* POST /upload/avatar: file is Null when the form carries none.
ExUploadAvatar(h, file, storeOk) ==
    /\ backend = "express"
    /\ IF Gate(h) # Null
       THEN /\ reply' = Refused("uploadAvatar", h, NoBody, Gate(h)[1].status, Gate(h)[1].error)
            /\ UNCHANGED <<blobs, nextUuid>>
       ELSE IF file = Null
       THEN /\ reply' = Refused("uploadAvatar", h, NoBody, 400, "No file uploaded")
            /\ UNCHANGED <<blobs, nextUuid>>
       ELSE IF ~storeOk
       THEN /\ reply' = Unavailable("uploadAvatar", h, NoBody, "Failed to upload avatar")
            /\ UNCHANGED <<blobs, nextUuid>>
       ELSE LET fileName == h[1].userId \o "/" \o randomUUID \o ExtName(file[1].originalname)
            IN  /\ nextUuid - 1 - Cardinality(Callers) < MaxBlobs
                /\ blobs' = blobs \cup {fileName}
                /\ nextUuid' = nextUuid + 1
                /\ reply' = Served("uploadAvatar", h, NoBody,
                                   [url |-> "https://avatars.blob/" \o fileName,
                                    filename |-> fileName])
    /\ UNCHANGED <<authState, profiles, userRoles, tblProfiles, tblRoles>>
    /\ UNCHANGED <<themeConfig, tblTheme, themePuts>>

\* DELETE /upload/avatar/:filename
ExDeleteAvatar(h, filename, storeOk) ==
    /\ backend = "express"
    /\ LET body == [NoBody EXCEPT !.filename = Some(filename)]
       IN  IF Gate(h) # Null
           THEN /\ reply' = Refused("deleteAvatar", h, body, Gate(h)[1].status,
                                    Gate(h)[1].error)
                /\ UNCHANGED blobs
           ELSE IF ~startsWith(filename, h[1].userId \o "/")
           THEN /\ reply' = Refused("deleteAvatar", h, body, 403, "Access denied")
                /\ UNCHANGED blobs
           ELSE IF ~storeOk
           THEN /\ reply' = Unavailable("deleteAvatar", h, body, "Failed to delete avatar")
                /\ UNCHANGED blobs
           ELSE /\ blobs' = blobs \ {filename}
                /\ reply' = Served("deleteAvatar", h, body,
                                   [message |-> "Avatar deleted successfully"])
    /\ UNCHANGED <<authState, profiles, userRoles, tblProfiles, tblRoles, nextUuid>>
    /\ UNCHANGED <<themeConfig, tblTheme, themePuts>>

\* ApiClient.deleteAvatar(filename): the path it requests, the filename put
\* in as it is.
deleteAvatarPath(filename) == "/upload/avatar/" \o filename

\* decodeURIComponent, of the one escape a filename here can hold
RECURSIVE decodeURIComponent(_)
decodeURIComponent(s) ==
    IF Len(s) < 3 THEN s
    ELSE IF SubSeq(s, 1, 3) = "%2F" THEN "/" \o decodeURIComponent(SubSeq(s, 4, Len(s)))
    ELSE SubSeq(s, 1, 1) \o decodeURIComponent(SubSeq(s, 2, Len(s)))

\* router.delete('/avatar/:filename') of the upload routes: the parameter is
\* one path segment, decoded; a path of another shape matches no route.
RouteFilename(path) ==
    LET mount == "/upload/avatar/"
        rest == SubSeq(path, Len(mount) + 1, Len(path))
    IN  IF startsWith(path, mount) /\ rest # "" /\ ~includes(rest, "/")
        THEN Some(decodeURIComponent(rest))
        ELSE Null

\* apiClient.deleteAvatar(filename) against the Express backend: the request
\* reaches the delete handler when its path matches the route, and is
\* answered 404 when no route matches.
ClientDeleteAvatar(h, filename, storeOk) ==
    /\ backend = "express"
    /\ LET param == RouteFilename(deleteAvatarPath(filename))
       IN  IF param # Null
           THEN ExDeleteAvatar(h, param[1], storeOk)
           ELSE /\ reply' = Refused("deleteAvatar", h,
                                    [NoBody EXCEPT !.filename = Some(filename)],
                                    404, "Request failed")
                /\ UNCHANGED <<authState, profiles, userRoles, tblProfiles, tblRoles,
                               nextUuid>>
                /\ UNCHANGED resourceVars

\* The first admin is seeded in the store by hand (the sample data of the
\* schema): possible while nobody holds admin.
SeedAdmin(userId) ==
    /\ backend = "express"
    /\ ~\E r \in tblRoles : r.role = "admin"
    /\ tblRoles' = InsertRole(tblRoles, userId, "admin")
    /\ UNCHANGED <<authState, profiles, userRoles, tblProfiles, nextUuid, reply>>
    /\ UNCHANGED resourceVars

\* UserManagement.toggleRole by a signed-in actor: listed is whether the
\* actor's user list shows the role; the user_roles policies let only an
\* admin's DELETE and INSERT through.
toggleRoleRows(actor, userId, role, listed) ==
    IF ~has_role(actor, "admin") THEN tblRoles
    ELSE IF listed
    THEN {r \in tblRoles : ~(r.user_id = userId /\ r.role = role)}
    ELSE InsertRole(tblRoles, userId, role)

toggleRole(actor, userId, role, listed) ==
    /\ backend = "express"
    /\ tblRoles' = toggleRoleRows(actor, userId, role, listed)
    /\ tblRoles' # tblRoles
    /\ UNCHANGED <<authState, profiles, userRoles, tblProfiles, nextUuid, reply>>
    /\ UNCHANGED resourceVars

-----------------------------------------------------------------------------
(* SpecGate: every endpoint behind authenticateToken, on either server *)

\* The requests sent: each kind of unusable token, no token, and the token of
\* the first identity.
GateHeaders == BadHeaders \cup {Some(TokenFor(1))}
GateProfile == [NoBody EXCEPT !.bio = Some("hello")]
GateTheme == [NoBody EXCEPT !.config = Some(<< <<"primaryColor", "#000000">> >>)]
GateFiles == {Null, Some([originalname |-> "me.png"])}
GateFilename == "avatar.jpg"

GateNext ==
    \/ \E h \in GateHeaders : MockGetMe(h)
    \/ \E h \in GateHeaders : MockGetProfile(h)
    \/ \E h \in GateHeaders : MockPutProfile(h, GateProfile)
    \/ \E h \in GateHeaders : MockGetRoles(h)
    \/ \E h \in GateHeaders : MockPutTheme(h, GateTheme)
    \/ \E h \in GateHeaders : MockUploadAvatar(h)
    \/ \E h \in GateHeaders : MockDeleteAvatar(h, GateFilename)
    \/ \E h \in GateHeaders : MockMakeAdmin(h, Some(IdOf(2)))
    \/ \E h \in GateHeaders, storeOk \in BOOLEAN : ExGetMe(h, storeOk)
    \/ \E h \in GateHeaders, storeOk \in BOOLEAN : ExGetProfile(h, storeOk)
    \/ \E h \in GateHeaders, storeOk \in BOOLEAN : ExPutProfile(h, GateProfile, storeOk)
    \/ \E h \in GateHeaders, storeOk \in BOOLEAN : ExGetRoles(h, storeOk)
    \/ \E h \in GateHeaders : ExPutTheme(h, GateTheme)
    \/ \E r \in BagToSet(themePuts), storeOk \in BOOLEAN : ExRequireAdmin(r, storeOk)
    \/ \E h \in GateHeaders, file \in GateFiles, storeOk \in BOOLEAN :
            ExUploadAvatar(h, file, storeOk)
    \/ \E h \in GateHeaders, storeOk \in BOOLEAN :
            ExDeleteAvatar(h, IdOf(1) \o "/" \o GateFilename, storeOk)

SpecGate == ResourceInit /\ [][GateNext]_vars

-----------------------------------------------------------------------------
(* SpecAdmin: the theme and the admin role, on either server *)

\* The theme objects submitted: a known key and a new one, in two colours
\* and fonts.
ThemeConfigs == {
    << <<"primaryColor", "#000000">>, <<"fontFamily", "Serif">> >>,
    << <<"primaryColor", "#ffffff">>, <<"fontFamily", "Mono">> >> }
ThemeBodies == {[NoBody EXCEPT !.config = Some(c)] : c \in ThemeConfigs}
Identities == {IdOf(n) : n \in Callers}

AdminNext ==
    \/ MockGetTheme
    \/ \E h \in GoodHeaders, body \in ThemeBodies : MockPutTheme(h, body)
    \/ \E h \in GoodHeaders, userId \in Identities : MockMakeAdmin(h, Some(userId))
    \/ \E storeOk \in BOOLEAN : ExGetTheme(storeOk)
    \/ \E h \in GoodHeaders, body \in ThemeBodies : ExPutTheme(h, body)
    \/ \E r \in BagToSet(themePuts), storeOk \in BOOLEAN : ExRequireAdmin(r, storeOk)
    \/ \E r \in BagToSet(themePuts), storeOk \in BOOLEAN : ExMerge(r, storeOk)
    \/ \E userId \in Identities : SeedAdmin(userId)
    \/ \E actor \in Identities, userId \in Identities, listed \in BOOLEAN :
            toggleRole(actor, userId, "admin", listed)

SpecAdmin == ResourceInit /\ [][AdminNext]_vars

-----------------------------------------------------------------------------
(* SpecProfile: reading and updating one's profile, on either server *)

\* The update bodies: each field left out, empty, blank or given.
ProfileBodies ==
    {[NoBody EXCEPT !.displayName = n, !.bio = b, !.avatarUrl = a] :
        n \in {Null, Some(""), Some("Bob")},
        b \in {Null, Some(""), Some(" x ")},
        a \in {Null, Some(""), Some("https://cdn.io/a.png")}}

ProfileNext ==
    \/ \E h \in GoodHeaders : MockGetProfile(h)
    \/ \E h \in GoodHeaders, body \in ProfileBodies : MockPutProfile(h, body)
    \/ \E h \in GoodHeaders, storeOk \in BOOLEAN : ExGetProfile(h, storeOk)
    \/ \E h \in GoodHeaders, body \in ProfileBodies, storeOk \in BOOLEAN :
            ExPutProfile(h, body, storeOk)

SpecProfile == ResourceInit /\ [][ProfileNext]_vars

-----------------------------------------------------------------------------
(* SpecAvatar: uploading and deleting avatars, on either server *)

\* The files uploaded, and the names asked to be deleted: every stored blob,
\* a name under each identity's prefix, and a name under no prefix.
AvatarFiles == {Null, Some([originalname |-> "me.png"]), Some([originalname |-> "me"])}
AvatarNames ==
    blobs \cup {IdOf(n) \o "/file.png" : n \in Callers} \cup {"avatar.jpg"}

AvatarNext ==
    \/ \E h \in GoodHeaders : MockUploadAvatar(h)
    \/ \E h \in GoodHeaders, filename \in AvatarNames : MockDeleteAvatar(h, filename)
    \/ \E h \in GoodHeaders, file \in AvatarFiles, storeOk \in BOOLEAN :
            ExUploadAvatar(h, file, storeOk)
    \/ \E h \in GoodHeaders, filename \in AvatarNames, storeOk \in BOOLEAN :
            ExDeleteAvatar(h, filename, storeOk)
    \/ \E h \in GoodHeaders, filename \in AvatarNames, storeOk \in BOOLEAN :
            ClientDeleteAvatar(h, filename, storeOk)

SpecAvatar == ResourceInit /\ [][AvatarNext]_vars

-----------------------------------------------------------------------------
(* SpecRoles: every operation that writes Role Assignments, on either server *)

\* What the page shows when an operation ends: toast({ title }).
Toast(op, title) == [op |-> op, toast |-> title]

\* The identities the user list shows: fetchUsers selects the profiles.
Listed == {p.id : p \in tblProfiles}
Roles == {"admin", "user"}

\* UserManagement.toggleRole with its toast. A DELETE that matches no row, or
\* that the policy hides every row from, is no error.
ToggleRole(actor, userId, role, listed) ==
    /\ backend = "express"
    /\ tblRoles' = toggleRoleRows(actor, userId, role, listed)
    /\ reply' = Toast("toggleRole",
                      IF listed THEN "Role Removed"
                      ELSE IF tblRoles' # tblRoles THEN "Role Assigned"
                      ELSE "Error")
    /\ UNCHANGED <<authState, profiles, userRoles, tblProfiles, nextUuid>>
    /\ UNCHANGED resourceVars

\* upsert(rows, { onConflict: "user_id,role" }): a pair the constraint admits
\* is inserted, a pair in conflict keeps its row.
upsert(rows, userIds, role) ==
    rows \cup {RoleRow(id, role, Cardinality(RolesOf(rows, id, role)) + 1) :
                 id \in {i \in userIds : UQ_user_roles_user_role(rows, i, role)}}

\* bulkToggleRole(role, "assign") over the selected users
BulkAssign(actor, userIds, role) ==
    /\ backend = "express"
    /\ userIds # {}
    /\ tblRoles' = IF has_role(actor, "admin") THEN upsert(tblRoles, userIds, role)
                   ELSE tblRoles
    /\ reply' = Toast("bulkAssign",
                      IF has_role(actor, "admin") THEN "Roles Assigned" ELSE "Error")
    /\ UNCHANGED <<authState, profiles, userRoles, tblProfiles, nextUuid>>
    /\ UNCHANGED resourceVars

\* bulkToggleRole(role, "revoke"): delete().in("user_id", userIds).eq("role", role)
BulkRevoke(actor, userIds, role) ==
    /\ backend = "express"
    /\ userIds # {}
    /\ tblRoles' = IF has_role(actor, "admin")
                   THEN {r \in tblRoles : ~(r.user_id \in userIds /\ r.role = role)}
                   ELSE tblRoles
    /\ reply' = Toast("bulkRevoke", "Roles Revoked")
    /\ UNCHANGED <<authState, profiles, userRoles, tblProfiles, nextUuid>>
    /\ UNCHANGED resourceVars

\* The sign-ups of two identities, one request at a time: the rows of a
\* sign-up are its own, and the role operations fall between its statements.
RoleSignups ==
    {b \in SignupBodies : b.password = Some("password123")
                          /\ b.email \in {Some("a@x.com"), Some("b@x.com")}}

RolesNext ==
    \/ \E b \in RoleSignups : MockSignup(b)
    \/ Tick
    \/ \E h \in Headers, i \in 1..Len(users) : MockMakeAdmin(h, Some(users[i].value.id))
    \/ \E b \in RoleSignups : signups = EmptyBag /\ ExSignup(b)
    \/ \E r \in BagToSet(signups) : ExLookup(r, TRUE)
    \/ \E r \in BagToSet(signups), o \in StatementOutcomes : ExInsert(r, o)
    \/ \E userId \in Listed : SeedAdmin(userId)
    \/ \E actor \in Listed, userId \in Listed, role \in Roles, listed \in BOOLEAN :
            ToggleRole(actor, userId, role, listed)
    \/ \E actor \in Listed, userIds \in SUBSET Listed, role \in Roles :
            BulkAssign(actor, userIds, role)
    \/ \E actor \in Listed, userIds \in SUBSET Listed, role \in Roles :
            BulkRevoke(actor, userIds, role)

SpecRoles == ServerInit /\ [][RolesNext]_vars

-----------------------------------------------------------------------------
(* SpecSignInCall: signIn of the AuthProvider, called once the mount-time   *)
(* check is over, with the session as it was at the call kept aside        *)

\* The token, the user and isAdmin as a caller of signIn sees them.
Session == [token |-> token, localStorage |-> localStorage, user |-> user,
            isAdmin |-> isAdmin]

\* signIn is called and the session of that moment noted.
SignInObserved ==
    /\ auth.checkAuth = "done"
    /\ SignInCalled
    /\ reply' = Session
    /\ UNCHANGED <<mockVars, resourceVars>>
    /\ UNCHANGED <<tblProfiles, tblPasswords, tblRoles, nextUuid, signups, backend, issued>>

\* signOut, by a visitor who is not in the middle of signing in.
SignOutIdle == auth.signIn = "idle" /\ SignOut

SignInCallNext ==
    \/ CheckAuth
    \/ \E o \in Answers("checkAuth") : CheckAuthSettle(o)
    \/ SignInObserved
    \/ \E o \in Answers("signIn") : SignInSettle(o)
    \/ SignOutIdle
    \/ \E p \in Procs : Wake(p)

SpecSignInCall == ClientInit /\ [][SignInCallNext]_vars

-----------------------------------------------------------------------------
(* SpecGuard: the admin-only views under the AuthProvider *)

\* <ProtectedRoute> of App.tsx renders the view it wraps for an
\* authenticated visitor and redirects the others.
ProtectedRoute == user # Null

\* What a view's effects did when they last ran: navigate(to) and whether
\* the view started loading its data.
Effects(view, to, fetched) == [op |-> view, navigate |-> to, fetch |-> fetched]

\* UserManagement: the two useEffect hooks, run with the values of the
\* render they follow.
UserManagementEffects ==
    /\ ProtectedRoute
    /\ reply' = Effects("UserManagement",
                        IF ~loading /\ ~isAdmin THEN Some("/") ELSE Null,
                        isAdmin)
    /\ UNCHANGED <<clientVars, mockVars, resourceVars>>
    /\ UNCHANGED <<tblProfiles, tblPasswords, tblRoles, nextUuid, signups, backend, issued>>

\* ThemeSettings: its one useEffect.
ThemeSettingsEffect ==
    /\ ProtectedRoute
    /\ reply' = Effects("ThemeSettings",
                        IF ~isAdmin THEN Some("/") ELSE Null,
                        isAdmin)
    /\ UNCHANGED <<clientVars, mockVars, resourceVars>>
    /\ UNCHANGED <<tblProfiles, tblPasswords, tblRoles, nextUuid, signups, backend, issued>>

GuardNext ==
    \/ CheckAuth
    \/ \E o \in Answers("checkAuth") : CheckAuthSettle(o)
    \/ SignIn
    \/ \E o \in Answers("signIn") : SignInSettle(o)
    \/ SignOut
    \/ \E p \in Procs : Wake(p)
    \/ UserManagementEffects
    \/ ThemeSettingsEffect

SpecGuard == ClientInit /\ [][GuardNext]_vars

-----------------------------------------------------------------------------
(* Claims about requestWithRetry (SpecRetry) *)

Attempts == trace["page"]
NumAttempts == Len(Attempts)
Outcome(i) == Attempts[i].outcome

\* Attempt i was the last one and ended the call with an error, with no
\* backoff after it.
Terminal(i) ==
    /\ i = NumAttempts
    /\ call["page"].pc = "thrown"
    /\ Len(slept["page"]) = i - 1

\* Attempt i was followed by a backoff and (once the sleep ends) a retry.
Retried(i) ==
    \/ i < NumAttempts
    \/ i = NumAttempts /\ call["page"].pc = "sleeping"

\* C1: a response with a status in 400..499, whatever its body, is the call's
\* only network attempt: the error is raised at once, with no retry and no
\* backoff delay.
C1_NoRetryOn4xx ==
    \A i \in 1..NumAttempts :
        (Outcome(i).kind = "response" /\ Outcome(i).status \in 400..499)
            => (i = 1 /\ Terminal(i))

Recognized(o) == o.kind = "reject" /\ shouldRetryError(o.error[1])

\* C2: when the first two attempts throw a recognized network-error message
\* and the third succeeds, the call returns the third attempt's result after
\* exactly 3 attempts and exactly two sleeps, of base*1 and then base*2.
C2_TwoFailuresThenSuccess ==
    (/\ NumAttempts >= 3
     /\ Recognized(Outcome(1))
     /\ Recognized(Outcome(2))
     /\ Outcome(3).kind = "response" /\ Outcome(3).status = 200)
        => /\ call["page"].pc = "returned"
           /\ call["page"].result = Outcome(3).payload
           /\ NumAttempts = 3
           /\ slept["page"] = <<retryDelay * 1, retryDelay * 2>>

C2_Witness ==
    /\ call["page"].pc = "returned"
    /\ NumAttempts = 3
    /\ Outcome(1) = Reject("Failed to fetch")
    /\ Outcome(2) = Reject("Network request failed")
    /\ Outcome(3) = Ok("body-2")

\* The attempts of the page's call that have ended.
Ended == {i \in 1..NumAttempts : Outcome(i) # Pending}

\* C19: while every attempt of a call has thrown a recognized network-error
\* message, the call has made at most maxRetries + 1 attempts and has slept
\* once after each failed attempt but the last possible one, the k-th sleep
\* (k from 0) lasting retryDelay * 2^k; after the failure of attempt
\* maxRetries + 1 it has raised the error, having slept exactly maxRetries
\* times, and it raises no sooner.
C19_PersistentNetworkFailure ==
    (\A i \in Ended : Recognized(Outcome(i))) =>
        /\ NumAttempts <= maxRetries + 1
        /\ Len(slept["page"]) = IF Cardinality(Ended) <= maxRetries
                                 THEN Cardinality(Ended) ELSE maxRetries
        /\ \A k \in 0..(Len(slept["page"]) - 1) :
                slept["page"][k + 1] = retryDelay * pow2(k)
        /\ call["page"].pc = "thrown" <=> Cardinality(Ended) = maxRetries + 1
        /\ call["page"].pc = "thrown" => call["page"].lastError = Outcome(NumAttempts).error[1]

\* Four attempts failed, with different recognized messages; the call has
\* raised after sleeping 1000, 2000 and 4000 ms.
C19_Witness ==
    /\ call["page"].pc = "thrown"
    /\ NumAttempts = 4
    /\ \A i \in 1..4 : Recognized(Outcome(i))
    /\ Outcome(1) # Outcome(4)
    /\ slept["page"] = <<1000, 2000, 4000>>

\* C3: an HTTP 500 response carrying any error message the endpoints of this
\* repository send is not retried.
C3_NoRetryOn500 ==
    \A i \in 1..NumAttempts :
        (Outcome(i) \in EndpointErrors /\ Outcome(i).status = 500) => Terminal(i)

\* C4: an attempt cut off by the request timeout is classified as a network
\* error: while attempts remain it is retried after a backoff.
C4_TimeoutIsRetried ==
    \A i \in 1..NumAttempts :
        (Outcome(i).kind = "abort" /\ i <= maxRetries) => Retried(i)

-----------------------------------------------------------------------------
(* Claims about the session store (SpecStore) *)

\* C5: after any sequence of setToken calls, what getToken() returns is what
\* is persisted under 'auth_token' (null when the key is absent), so a
\* freshly constructed client loads the value getToken() returns now.
C5_TokenMatchesStorage == getToken = getItem

-----------------------------------------------------------------------------
(* Claims about the session context (SpecSession) *)

AuthFailures == {o \in EndpointErrors : o.status \in {401, 403}}

Anonymous == token = Null /\ localStorage = Null /\ user = Null

\* C6: whenever a call made through the client fails with a 401 or 403
\* response, the persisted token is cleared and the session is Anonymous.
C6_AuthFailureClearsSession ==
    [][\A o \in AuthFailures :
          (\/ LoadProfileSettle(o) \/ CheckAuthSettle(o)
           \/ SignInSettle(o) \/ SignUpSettle(o)) => Anonymous']_vars

\* An attempt of caller p is issued in this step.
Issued(p) ==
    /\ call'[p].pc = "fetching"
    /\ call[p].pc # "fetching" \/ call'[p].endpoint # call[p].endpoint

\* The step completes a sign-in or a sign-up successfully.
SignedIn == \E u \in Users : SignInSettle(Ok(u)) \/ SignUpSettle(Ok(u))

\* C7: signOut leaves the in-memory token null, the 'auth_token' key absent,
\* the current user null and isAdmin false; from then on the token stays null
\* until a sign-in or sign-up succeeds, and every attempt issued while it is
\* null carries no Authorization header.
C7_SignOut ==
    [][/\ SignOut => (Anonymous' /\ ~isAdmin')
       /\ (token = Null /\ token' # Null) => SignedIn
       /\ \A p \in Procs :
            (Issued(p) /\ token' = Null) => trace'[p][Len(trace'[p])].auth = Null]_vars

\* signIn's credential step succeeded, the user signed out while its role
\* lookup was asleep between attempts, and the retry went out without a header.
C7_Witness ==
    /\ auth.signIn = "getUserRoles"
    /\ Anonymous /\ ~isAdmin
    /\ call["signIn"].pc = "fetching" /\ call["signIn"].attempt = 1
    /\ PendingHeader("signIn") = Null

-----------------------------------------------------------------------------
(* Claims about sign-up on the servers (SpecServer) *)

\* What get-current-identity answers to a bearer token, the store answering.
Me(t) == IF backend = "mock" THEN MockMe(Some(t)) ELSE ExpressMe(Some(t), TRUE)

\* C8: in every reachable state of either server, the token a successful
\* sign-up returned, presented to get-current-identity, resolves to an
\* identity whose email is the email of that sign-up.
C8_SignupTokenResolves ==
    \A r \in issued :
        /\ Me(r.token).status = 200
        /\ Me(r.token).user[1].email = r.email

\* The records the servers hold about identities.
Stores == <<users, profiles, userRoles, tblProfiles, tblPasswords, tblRoles>>

\* The step sends the response to a sign-up whose input is valid for the
\* server and whose email was registered when the request arrived.
AnswersDuplicate ==
    /\ reply' # reply
    /\ reply'.op = "signup"
    /\ reply'.known
    /\ IF backend = "mock"
       THEN Truthy(reply'.request.email) /\ Truthy(reply'.request.password)
       ELSE SignupValid(reply'.request)

\* C9: a valid sign-up with an email that is already registered is answered
\* 400 "User already exists" (500 "Failed to create user" when the store did
\* not answer the existence query), returns no token, and the step that
\* answers it leaves every identity, credential and role record as it was;
\* the request never reaches the point where records are created.
C9_DuplicateSignupFails ==
    [][ /\ AnswersDuplicate =>
            /\ reply'.status = IF reply'.answered THEN 400 ELSE 500
            /\ reply'.error = IF reply'.answered THEN Some("User already exists")
                              ELSE Some("Failed to create user")
            /\ reply'.token = Null
            /\ Stores' = Stores
        /\ \A r \in BagToSet(signups') : r.known => r.pc = "lookup"
      ]_vars

C9_Witness ==
    /\ backend = "express"
    /\ reply # <<>>
    /\ reply.op = "signup" /\ reply.known /\ reply.answered
    /\ reply.request.email = Some("B@x.com")
    /\ reply.status = 400 /\ reply.error = Some("User already exists")
    /\ \E p \in tblProfiles : p.email = "b@x.com"
    /\ \E c \in tblPasswords : \E p \in tblProfiles : p.email = "b@x.com" /\ c.user_id = p.id

\* The identities the Express backend has created records for and whose
\* sign-up request has been answered.
Attempted ==
    ({p.id : p \in tblProfiles} \cup {c.user_id : c \in tblPasswords}
        \cup {r.user_id : r \in tblRoles})
    \ {r.userId : r \in BagToSet(signups)}

\* C10: once a sign-up attempt has been answered, the identity, its
\* credential and its 'user' role assignment either all exist or none does.
C10_SignupAtomic ==
    /\ \A id \in Attempted :
        /\ \E p \in tblProfiles : p.id = id
        /\ \E c \in tblPasswords : c.user_id = id
        /\ \E r \in tblRoles : r.user_id = id /\ r.role = "user"
    /\ \A i \in 1..Len(users) :
        /\ MapHas(profiles, users[i].value.id)
        /\ MapHas(userRoles, users[i].value.id)

-----------------------------------------------------------------------------
(* Claims about sign-in (SpecSignin) *)

\* What a client sees of a response: the status and the JSON body.
Observable(r) ==
    [status |-> r.status, error |-> r.error, user |-> r.user, token |-> r.token]

\* The stores with every record of the identities registered under an email
\* taken out.
UsersWithout(email) == SelectSeq(users, LAMBDA e : e.key # email)
ProfilesWithout(email) == {p \in tblProfiles : p.email # email}
PasswordsWithout(email) ==
    {c \in tblPasswords :
        ~\E p \in tblProfiles : p.email = email /\ p.id = c.user_id}

\* C11: in every reachable state of either server, a sign-in whose password
\* does not match gets the same status and the same body as it gets in the
\* state that differs only in that the email is not registered.
C11_SigninNonDisclosure ==
    \A b \in SigninBodies :
        IF backend = "mock"
        THEN LET here == MockSignin(users, b)
                 there == MockSignin(UsersWithout(b.email[1]), b)
             IN  here.status # 200 => Observable(here) = Observable(there)
        ELSE \A storeOk \in BOOLEAN :
             LET email == normalizeEmail(b.email[1])
                 here == ExpressSignin(tblProfiles, tblPasswords, b, storeOk)
                 there == ExpressSignin(ProfilesWithout(email),
                                        PasswordsWithout(email), b, storeOk)
             IN  (\A r \in here : r.status # 200) =>
                    {Observable(r) : r \in here} = {Observable(r) : r \in there}

\* A registered email was tried with a wrong password on the Express backend.
C11_Witness ==
    /\ backend = "express"
    /\ reply # <<>>
    /\ reply.op = "signin" /\ reply.known
    /\ reply.status = 401 /\ reply.error = Some("Invalid credentials")
    /\ Credentials(tblProfiles, tblPasswords, "a@x.com") # {}
    /\ reply.request.email = Some("a@x.com")

-----------------------------------------------------------------------------
(* Claims about the gates of the resource endpoints (SpecGate) *)

\* Everything the servers store.
Resources == <<Stores, themeConfig, tblTheme, blobs, themePuts, nextUuid>>

\* A step in which a request with header h reaches a protected endpoint and
\* is answered or passed on.
GateRequest(h) ==
    \/ MockGetMe(h)
    \/ MockGetProfile(h)
    \/ MockPutProfile(h, GateProfile)
    \/ MockGetRoles(h)
    \/ MockPutTheme(h, GateTheme)
    \/ MockUploadAvatar(h)
    \/ MockDeleteAvatar(h, GateFilename)
    \/ MockMakeAdmin(h, Some(IdOf(2)))
    \/ \E storeOk \in BOOLEAN : ExGetMe(h, storeOk)
    \/ \E storeOk \in BOOLEAN : ExGetProfile(h, storeOk)
    \/ \E storeOk \in BOOLEAN : ExPutProfile(h, GateProfile, storeOk)
    \/ \E storeOk \in BOOLEAN : ExGetRoles(h, storeOk)
    \/ ExPutTheme(h, GateTheme)
    \/ \E file \in GateFiles, storeOk \in BOOLEAN : ExUploadAvatar(h, file, storeOk)
    \/ \E storeOk \in BOOLEAN : ExDeleteAvatar(h, IdOf(1) \o "/" \o GateFilename, storeOk)

\* The authentication errors: those of authenticateToken on both servers and
\* of the token check inside the Express backend's GET /me.
AuthenticationError(h) ==
    IF h = Null
    THEN {<<401, Some("Access token required")>>, <<401, Some("Token required")>>}
    ELSE {<<403, Some("Invalid or expired token")>>, <<401, Some("Invalid token")>>}

\* C12: a request to a protected endpoint whose token is missing, malformed,
\* expired or tampered with is answered with an authentication error and no
\* payload, and the endpoint's handler does not run: nothing the server
\* stores changes and the request is not passed on.
C12_AuthenticatedGate ==
    [][\A h \in BadHeaders :
          GateRequest(h) =>
            /\ reply'.request.authorization = h
            /\ <<reply'.status, reply'.error>> \in AuthenticationError(h)
            /\ reply'.user = Null /\ reply'.token = Null
            /\ UNCHANGED Resources]_vars

\* An expired token was turned away from PUT /theme after the first identity
\* had changed its profile with a good one.
C12_Witness ==
    /\ reply.op = "putTheme"
    /\ reply.request.authorization = Some(Expired)
    /\ reply.status = 403
    /\ \/ \E p \in tblProfiles : p.bio = Some("hello")
       \/ \E i \in 1..Len(profiles) : profiles[i].value.bio = Some("hello")

-----------------------------------------------------------------------------
(* Claims about the theme and the admin role (SpecAdmin) *)

\* The identity has an admin Role Assignment in the store of the server.
HoldsAdmin(userId) ==
    IF backend = "mock"
    THEN \E i \in 1..Len(userRoles) :
            /\ userRoles[i].key = userId
            /\ \E j \in 1..Len(userRoles[i].value) : userRoles[i].value[j].role = "admin"
    ELSE \E r \in tblRoles : r.user_id = userId /\ r.role = "admin"

\* The answer of the admin gate to a request it denies.
Denial(storeOk) ==
    IF storeOk THEN <<403, Some("Admin access required")>>
    ELSE <<500, Some("Authorization check failed")>>

\* C13: when the admin gate of PUT /theme examines a request with a valid
\* token whose identity holds no admin Role Assignment at that moment, the
\* request is answered 403 'Admin access required' (500 'Authorization check
\* failed' if the store does not answer the gate's query) and the handler does
\* not run: the request is dropped and the theme is not written.
C13_AdminGate ==
    [][\A r \in BagToSet(themePuts), storeOk \in BOOLEAN :
          (ExRequireAdmin(r, storeOk) /\ ~HoldsAdmin(r.userId)) =>
            /\ reply'.op = "putTheme"
            /\ reply'.request = Req(r.h, r.body)
            /\ <<reply'.status, reply'.error>> = Denial(storeOk)
            /\ reply'.user = Null
            /\ themePuts' = Remove(themePuts, r)
            /\ UNCHANGED <<tblTheme, themeConfig>>]_vars

\* The second identity, a plain user, was denied while the first held admin.
C13_Witness ==
    /\ backend = "express"
    /\ reply.op = "putTheme" /\ reply.status = 403
    /\ reply.error = Some("Admin access required")
    /\ reply.request.authorization = Some(TokenFor(2))
    /\ HoldsAdmin(IdOf(1)) /\ ~HoldsAdmin(IdOf(2))
    /\ \E r \in tblRoles : r.user_id = IdOf(2) /\ r.role = "user"

\* C14: a step that removes an identity's admin Role Assignment from the
\* store leaves the admin gate denying that identity: the decision the gate
\* takes for it from then on is the denial, whatever it decided for earlier
\* requests of the identity, those still being handled included.
C14_AdminRevocation ==
    [][\A userId \in Identities :
          (HoldsAdmin(userId) /\ ~HoldsAdmin(userId)') =>
            (requireAdmin(userId, TRUE) =
                Some([status |-> 403, error |-> "Admin access required"]))']_vars

\* The first identity lost admin while a PUT /theme of it, let through by
\* the gate, was still writing, and a PUT /theme of it has been denied.
C14_Witness ==
    /\ backend = "express"
    /\ ~HoldsAdmin(IdOf(1))
    /\ \E q \in BagToSet(themePuts) : q.userId = IdOf(1) /\ q.pc = "merge"
    /\ reply.op = "putTheme" /\ reply.status = 403
    /\ reply.request.authorization = Some(TokenFor(1))

\* C15: on both servers a PUT /theme by an authenticated identity that does
\* not hold the admin role is answered 403 and changes no value of the theme
\* configuration.
C15_ThemeWriteProtection ==
    [][/\ \A h \in GoodHeaders, body \in ThemeBodies :
            (MockPutTheme(h, body) /\ ~HoldsAdmin(h[1].userId)) =>
                reply'.status = 403 /\ themeConfig' = themeConfig
       /\ \A r \in BagToSet(themePuts) :
            (ExRequireAdmin(r, TRUE) /\ ~HoldsAdmin(r.userId)) =>
                reply'.status = 403 /\ tblTheme' = tblTheme]_vars

\* The step is a request of an identity that holds the admin role and asks
\* for the admin role of userId to be granted or removed.
ByAdmin(userId) ==
    \E actor \in Identities :
        /\ HoldsAdmin(actor)
        /\ \/ \E listed \in BOOLEAN : toggleRole(actor, userId, "admin", listed)
           \/ \E h \in GoodHeaders : h[1].userId = actor /\ MockMakeAdmin(h, Some(userId))

\* C16: an identity's admin Role Assignment appears or disappears only by a
\* request of an identity that holds the admin role at that time (the first
\* admin, seeded in the store by hand, aside).
C16_AdminGrantsAdmin ==
    [][\A userId \in Identities :
          (HoldsAdmin(userId)' # HoldsAdmin(userId)) =>
              SeedAdmin(userId) \/ ByAdmin(userId)]_vars

\* What GET /theme returns when the store answers.
Theme == IF backend = "mock" THEN themeConfig ELSE tblTheme

\* after holds the submitted value under every submitted key.
Submitted(entries, after) ==
    \A i \in 1..Len(entries) :
        /\ entries[i][1] \in DOMAIN after
        /\ after[entries[i][1]] = FromEntries(entries)[entries[i][1]]

\* Every key of before outside keys has the same value in after.
Kept(before, keys, after) ==
    \A k \in DOMAIN before \ keys : k \in DOMAIN after /\ after[k] = before[k]

\* C20: when a PUT /theme by an admin answers with success, the theme that
\* GET /theme returns from then on holds the submitted value under every
\* submitted key, and the write has left every other key with its prior
\* value: on the mock server in the one step of the handler, on the Express
\* backend statement by statement and, when the last statement is done and
\* the success is sent, for the submitted mapping as a whole.
C20_ThemeUpsert ==
    [][/\ \A h \in GoodHeaders, body \in ThemeBodies :
            (MockPutTheme(h, body) /\ reply'.status = 200) =>
                /\ Submitted(body.config[1], Theme')
                /\ Kept(Theme, DOMAIN FromEntries(body.config[1]), Theme')
       /\ \A r \in BagToSet(themePuts) :
            ExMerge(r, TRUE) =>
                /\ Submitted(<<r.todo[1]>>, Theme')
                /\ Kept(Theme, {r.todo[1][1]}, Theme')
                /\ Len(r.todo) = 1 =>
                        /\ reply'.status = 200
                        /\ Submitted(r.body.config[1], Theme')]_vars

-----------------------------------------------------------------------------
(* Claims about the profile (SpecProfile) *)

\* The stored profile of an identity, as displayName, bio and avatarUrl.
Stored(userId) ==
    IF backend = "mock"
    THEN LET p == MapGet(profiles, userId)[1]
         IN  [displayName |-> Some(p.displayName), bio |-> p.bio, avatarUrl |-> p.avatarUrl]
    ELSE LET p == CHOOSE row \in tblProfiles : row.id = userId
         IN  [displayName |-> p.display_name, bio |-> p.bio, avatarUrl |-> p.avatar_url]

\* The fields that the update left out keep their stored values, and so does
\* every field of the other identities.
OmittedKept(userId, body) ==
    /\ body.displayName = Null => Stored(userId)'.displayName = Stored(userId).displayName
    /\ body.bio = Null => Stored(userId)'.bio = Stored(userId).bio
    /\ body.avatarUrl = Null => Stored(userId)'.avatarUrl = Stored(userId).avatarUrl
    /\ \A other \in Identities \ {userId} : Stored(other)' = Stored(other)

\* C17: an update of one's profile that leaves out some of displayName, bio
\* and avatarUrl leaves each of these with exactly the value stored before,
\* on both servers.
C17_PartialProfileUpdate ==
    [][\A h \in GoodHeaders, body \in ProfileBodies :
          (/\ reply'.op = "putProfile" /\ reply'.request = Req(h, body)
           /\ \/ MockPutProfile(h, body)
              \/ \E storeOk \in BOOLEAN : ExPutProfile(h, body, storeOk))
              => OmittedKept(h[1].userId, body)]_vars

\* On the Express backend an update of bio alone was served on a profile
\* whose displayName and avatarUrl had been set; both are still there.
C17_Witness ==
    /\ backend = "express"
    /\ reply.op = "putProfile" /\ reply.status = 200
    /\ reply.request.authorization = Some(TokenFor(2))
    /\ reply.request.body = [NoBody EXCEPT !.bio = Some(" x ")]
    /\ Stored(IdOf(2)) = [displayName |-> Some("Bob"), bio |-> Some("x"),
                          avatarUrl |-> Some("https://cdn.io/a.png")]

-----------------------------------------------------------------------------
(* Claims about avatars (SpecAvatar) *)

\* The step is a DELETE of filename asked with header h.
DeleteRequest(h, filename) ==
    \/ MockDeleteAvatar(h, filename)
    \/ \E storeOk \in BOOLEAN : ExDeleteAvatar(h, filename, storeOk)

\* C18: a request to delete a file named under another identity's id prefix
\* is rejected (403) and deletes nothing, on both servers.
C18_AvatarDeleteOwnership ==
    [][\A h \in GoodHeaders, n \in Callers, filename \in AvatarNames :
          (/\ IdOf(n) # h[1].userId
           /\ startsWith(filename, IdOf(n) \o "/")
           /\ DeleteRequest(h, filename))
              => reply'.status = 403 /\ blobs' = blobs]_vars

-----------------------------------------------------------------------------
(* Claims about GET /me of the Express backend (SpecServer) *)

\* C21: GET /me answers with an authentication error (401) only when the
\* token is missing or fails verification; with a valid token, a lookup the
\* store does not answer is answered as an upstream failure (5xx), and a
\* lookup that finds no identity as not-found (404).
C21_MeErrorClassification ==
    [][\A h \in Headers, storeOk \in BOOLEAN :
          ExGetMe(h, storeOk) =>
            LET valid == h # Null /\ h[1].sig = <<h[1].userId, h[1].email, h[1].exp,
                                                  ExpressSecret>> /\ h[1].exp > Today
            IN  /\ reply'.status \in {401, 403} => ~valid
                /\ (valid /\ ~storeOk) => reply'.status >= 500
                /\ (valid /\ storeOk /\ ~\E p \in tblProfiles : p.id = h[1].userId)
                        => reply'.status = 404]_vars

-----------------------------------------------------------------------------
(* Claims about concurrent sign-ups (SpecServer) *)

\* C22: whatever the interleaving of the sign-up requests, the store holds at
\* most one identity per email.
C22_EmailUnique ==
    /\ \A p, q \in tblProfiles : p.email = q.email => p = q
    /\ \A i, j \in 1..Len(users) : users[i].value.email = users[j].value.email => i = j

-----------------------------------------------------------------------------
(* C23 (SpecRoles) *)

-----------------------------------------------------------------------------
(* C24 (SpecGuard) *)

\* C24: whenever the effects of the User Management or Theme Settings view
\* run, they navigate to '/' only if the session has finished loading and
\* isAdmin is false, they never navigate away when isAdmin is true, and they
\* start the admin data fetch only when isAdmin is true.
C24_AdminRouteGuard ==
    [][(UserManagementEffects \/ ThemeSettingsEffect) =>
          /\ reply'.navigate # Null => (~loading /\ ~isAdmin)
          /\ isAdmin => reply'.navigate = Null
          /\ ~isAdmin => ~reply'.fetch]_vars

-----------------------------------------------------------------------------
(* C25 (SpecStore) *)

\* C25: every attempt of one logical request carries the Authorization
\* credential of its first attempt, whatever setToken calls fall between
\* the attempts.
C25_AttemptsShareCredential ==
    \A p \in Procs :
        \A i \in 1..Len(trace[p]) : trace[p][i].auth = trace[p][1].auth

-----------------------------------------------------------------------------
(* C26, C27, C28 (SpecSession) *)

\* C26: in every state of the session context, a current user comes with a
\* stored token, in the client and in localStorage.
C26_UserImpliesToken ==
    user # Null => (token # Null /\ localStorage # Null)

\* The step is the return of a role lookup that was sent for the user the
\* session holds, and the roles returned hold admin.
AdminLookedUp ==
    \E p \in {"checkAuth", "signIn"} :
        /\ call[p].pc = "fetching"
        /\ call[p].endpoint = "/profiles/me/roles"
        /\ user' # Null
        /\ PendingHeader(p) = Some(TokenOf(user'[1]))
        /\ \/ p = "checkAuth" /\ CheckAuthSettle(Ok("admin"))
           \/ p = "signIn" /\ SignInSettle(Ok("admin"))

\* C27: isAdmin is true after a step only if it was true of the same user
\* before the step, or the step is the return of a role lookup for the
\* current user that holds admin; it never passes on to another user.
C27_AdminOfCurrentUser ==
    [][isAdmin' => ((isAdmin /\ user' = user) \/ AdminLookedUp)]_vars

\* The mount-time check ends in this step, and since it sent its request a
\* sign-in or sign-up has stored another token.
CheckEndsAfterSignIn ==
    /\ auth.checkAuth \in {"getCurrentUser", "getUserRoles"}
    /\ auth'.checkAuth = "done"
    /\ token # Null
    /\ trace["checkAuth"][1].auth # token

\* C28: when the mount-time check ends after a sign-in or sign-up has stored
\* its token, that token is still stored, whether the check succeeded or
\* failed.
C28_SignInTokenSurvivesCheck ==
    [][CheckEndsAfterSignIn => (token' = token /\ localStorage' = localStorage)]_vars

-----------------------------------------------------------------------------
(* C30 (SpecAvatar) *)

\* C30: the filename a successful upload returned, handed unchanged to the
\* client's deleteAvatar by the same identity, reaches the delete handler,
\* passes its ownership check and the blob of that name is deleted.
C30_UploadedNameDeletes ==
    [][\A h \in GoodHeaders, filename \in blobs :
          (/\ startsWith(filename, h[1].userId \o "/")
           /\ ClientDeleteAvatar(h, filename, TRUE))
              => (reply'.status = 200 /\ filename \notin blobs')]_vars

-----------------------------------------------------------------------------
(* C29 (SpecSignInCall) *)

\* signIn rejects in this step: its call is over and it did not run to its
\* end.
SignInRejects ==
    /\ auth.signIn \in {"signIn", "getUserRoles"}
    /\ auth'.signIn = "idle"
    /\ \E o \in Answers("signIn") : SignInSettle(o) /\ Settled(call["signIn"], o).pc = "thrown"

\* C29: whenever signIn rejects, at the credential check or at the role
\* lookup, the stored token, the current user and isAdmin are what they were
\* before the call.
C29_FailedSignInChangesNothing ==
    [][SignInRejects => Session' = reply]_vars

====
